---- MODULE Spec2Model ----
(***************************************************************************)
(* omnis: gin middleware and response helpers.                             *)
(*                                                                         *)
(* The model follows one request (Spec) or several concurrent requests     *)
(* (SpecConc) through the router's middleware chain and its handler.  Each *)
(* request owns a gin.Context (a key/value bag, the request headers, the   *)
(* response headers and the response writer).  Go functions that take a    *)
(* *gin.Context are operators from a context to a record holding the       *)
(* returned value and the context as the call leaves it.                   *)
(***************************************************************************)
EXTENDS Integers, Sequences, FiniteSets, TLC

VARIABLES
    router,     \* the middleware chain registered with r.Use(...)
    ctx,        \* ctx[r]: the gin.Context of request r
    pc,         \* pc[r]: "mw" (in the chain), "cid" (inside SetCorrelationID), "handler"
    idx,        \* idx[r]: index of the middleware that runs next (gin's c.index)
    cidLocal,   \* the local variable correlationID of SetCorrelationID's handler
    last,       \* last[r]: the last call made for request r, its arguments and result
    gen,        \* gen[r]: the ID GetCorrelationIDOrGenerate generated for r ("" if none)
    nops        \* nops[r]: number of calls the handler of r has made

vars == <<router, ctx, pc, idx, cidLocal, last, gen, nops>>

(***************************************************************************)
(* Bounds                                                                  *)
(***************************************************************************)
MaxOps == 2      \* calls one handler makes
NumReqs == 2     \* concurrent requests of SpecConc

(***************************************************************************)
(* Constants of the package                                                *)
(***************************************************************************)
CORRELATION_ID_KEY == "correlationid"
REQUEST_LOGGER == "omnis_request_logger"
Unknown == "unknown"

\* uuid.NewRandom() / uuid.New(): some non-empty identifier
UUIDs == {"uuid-1", "uuid-2"}

(***************************************************************************)
(* gin.Context                                                             *)
(***************************************************************************)
CtxKeys ==
    {CORRELATION_ID_KEY, REQUEST_LOGGER, "request_logger", "correlation-id", "json_renderer",
     "logger", "arbor"}

NoVal == [kind |-> "none", s |-> ""]
StrVal(s) == [kind |-> "str", s |-> s]
OtherVal == [kind |-> "other", s |-> ""]
LoggerVal(id) == [kind |-> "logger", s |-> id]

\* http.CanonicalHeaderKey, as net/http applies it to every header name
CanonicalHeaderKey(name) ==
    CASE name = "X-Correlation-ID" -> "X-Correlation-Id"
      [] name = "correlationid" -> "Correlationid"
      [] name = "Content-Type" -> "Content-Type"
      [] name = "x-t3b-app" -> "X-T3b-App"
      [] name = "x-t3b-version" -> "X-T3b-Version"
      [] OTHER -> name

ReqHeaderNames == {"X-Correlation-Id", "Correlationid"}
RespHeaderNames ==
    {"X-Correlation-Id", "Correlationid", "Content-Type", "Expires", "X-T3b-App",
     "X-T3b-Version"}

NoRespHeaders == [h \in RespHeaderNames |-> ""]

\* Nothing written yet
NoBytes == [kind |-> "none", val |-> [t |-> "null", v |-> ""], style |-> "", order |-> ""]

\* A fresh context as gin hands it to the first middleware: no response header,
\* the request's URL path and the path of the route it matched, gin's default
\* status (http.StatusOK), nothing written, c.Writer the plain
\* gin response writer (no interceptor in front of it).  writerFails and
\* marshalFails are what the request's environment does: whether Write on gin's
\* response writer returns an error (the client is gone) and whether the
\* interceptor's json.Marshal or json.MarshalIndent returns one; werr is the
\* error the last c.Writer.Write returned.
NewContext(keys, req) ==
    [nil |-> FALSE, keys |-> keys, req |-> req, resp |-> NoRespHeaders,
     path |-> "/test", fullPath |-> "/test", status |-> 200, committed |-> FALSE,
     writers |-> <<>>, out |-> NoBytes, nwrites |-> 0,
     writerFails |-> FALSE, marshalFails |-> FALSE, werr |-> FALSE]

\* A nil *gin.Context
NilCtx ==
    [nil |-> TRUE, keys |-> [k \in CtxKeys |-> NoVal],
     req |-> [h \in ReqHeaderNames |-> ""], resp |-> NoRespHeaders,
     path |-> "", fullPath |-> "", status |-> 200, committed |-> FALSE,
     writers |-> <<>>, out |-> NoBytes, nwrites |-> 0,
     writerFails |-> FALSE, marshalFails |-> FALSE, werr |-> FALSE]

\* c.GetString(key): the value when it is a string, "" otherwise
GetString(c, key) == IF c.keys[key].kind = "str" THEN c.keys[key].s ELSE ""

\* c.GetHeader(name): the request header, "" when absent
GetHeader(c, name) == c.req[CanonicalHeaderKey(name)]

\* c.Set(key, value)
CtxSet(c, key, val) == [c EXCEPT !.keys[key] = val]

\* c.Header(name, value): sets the response header; an empty value deletes it
Header(c, name, value) == [c EXCEPT !.resp[CanonicalHeaderKey(name)] = value]

\* w.Header().Get(name) on the response
RespHeader(c, name) == c.resp[CanonicalHeaderKey(name)]

(***************************************************************************)
(* middleware_correlationid.go                                             *)
(***************************************************************************)

ResolveCorrelationIDHeaderFirst(c, uuid) ==
    LET fromHdr == GetHeader(c, "X-Correlation-ID")
        fromCtx == IF fromHdr = "" THEN GetString(c, CORRELATION_ID_KEY) ELSE fromHdr
    IN  IF fromCtx = "" THEN uuid ELSE fromCtx

\* SetCorrelationID, lines 15-31: the ID the middleware settles on
ResolveCorrelationID(c, uuid) ==
    LET fromCtx == GetString(c, CORRELATION_ID_KEY)
        fromHdr == IF fromCtx = "" THEN GetHeader(c, "X-Correlation-ID") ELSE fromCtx
    IN  IF fromHdr = "" THEN uuid ELSE fromHdr

StoreCorrelationIDOneHeader(c, id) ==
    Header(CtxSet(c, CORRELATION_ID_KEY, StrVal(id)), "X-Correlation-ID", id)

\* SetCorrelationID, lines 34-38: context value and both response headers
StoreCorrelationID(c, id) ==
    Header(Header(CtxSet(c, CORRELATION_ID_KEY, StrVal(id)),
                  "X-Correlation-ID", id),
           CORRELATION_ID_KEY, id)

\* The variable correlationID is declared inside the handler func: one per call.
SharedSlot(r) == 1
LocalSlot(r) == r

GetCorrelationIDHeaderFirst(c) ==
    [ret |-> IF c.nil THEN Unknown
             ELSE IF GetHeader(c, "X-Correlation-ID") # "" THEN GetHeader(c, "X-Correlation-ID")
             ELSE IF GetString(c, CORRELATION_ID_KEY) # "" THEN GetString(c, CORRELATION_ID_KEY)
             ELSE IF GetHeader(c, CORRELATION_ID_KEY) # "" THEN GetHeader(c, CORRELATION_ID_KEY)
             ELSE Unknown,
     c |-> c]

\* GetCorrelationID(c): the value returned and the context as the call leaves it
GetCorrelationIDCall(c) ==
    [ret |-> IF c.nil THEN Unknown
             ELSE IF GetString(c, CORRELATION_ID_KEY) # "" THEN GetString(c, CORRELATION_ID_KEY)
             ELSE IF GetHeader(c, "X-Correlation-ID") # "" THEN GetHeader(c, "X-Correlation-ID")
             ELSE IF GetHeader(c, CORRELATION_ID_KEY) # "" THEN GetHeader(c, CORRELATION_ID_KEY)
             ELSE Unknown,
     c |-> c]

GetCorrelationID(c) == GetCorrelationIDCall(c).ret

GetCorrelationIDOrGenerateNoStore(c, uuid) ==
    LET found == GetCorrelationID(c)
    IN  IF found = Unknown THEN [ret |-> uuid, c |-> c] ELSE [ret |-> found, c |-> c]

\* GetCorrelationIDOrGenerate(c)
GetCorrelationIDOrGenerateCall(c, uuid) ==
    LET found == GetCorrelationID(c)
    IN  IF found = Unknown
        THEN [ret |-> uuid, c |-> IF c.nil THEN c ELSE StoreCorrelationID(c, uuid)]
        ELSE [ret |-> found, c |-> c]

(***************************************************************************)
(* JSON: values, encoding/json and the bytes on the wire                   *)
(***************************************************************************)
JNull == [t |-> "null", v |-> ""]
JStr(s) == [t |-> "str", v |-> s]
JNum(n) == [t |-> "num", v |-> n]
JArr(seq) == [t |-> "arr", v |-> seq]
JObj(f) == [t |-> "obj", v |-> f]

\* jsonData.(map[string]interface{}) and a key lookup in it
IsObject(v) == v.t = "obj"
HasKey(v, k) == IsObject(v) /\ k \in DOMAIN v.v

\* map[string]string as a JSON object
StringMapJSON(m) == JObj([k \in DOMAIN m |-> JStr(m[k])])

\* The bytes of a body: their JSON text (the value, how it is laid out and the
\* order of its top-level keys) or text that is no JSON.
\* json.Marshal / json.MarshalIndent of a Go value: a map is written with its
\* keys sorted, a struct with its fields in declaration order.
Marshal(obj, style) ==
    [kind |-> "json", val |-> obj.val, style |-> style, order |-> obj.order]

\* A value obtained from json.Unmarshal into interface{}: objects are maps.
Parsed(val) == [val |-> val, order |-> "sorted"]

\* A Go struct value with its JSON form
StructValue(val) == [val |-> val, order |-> "struct"]

\* The bytes of a body that is no JSON, as c.String(http.StatusOK, "hello")
\* writes them
TextBytes == [kind |-> "text", val |-> JStr("hello"), style |-> "", order |-> ""]

\* json.Unmarshal(data, &jsonData)
Unmarshal(data) ==
    IF data.kind = "json" THEN [ok |-> TRUE, val |-> data.val]
    ELSE [ok |-> FALSE, val |-> JNull]

\* strings.Contains(contentType, "application/json")
ContainsApplicationJSON(contentType) ==
    contentType \in {"application/json", "application/json; charset=utf-8"}

(***************************************************************************)
(* model_serviceconfig.go, model_apiresponse.go                            *)
(***************************************************************************)
NilConfig == [nil |-> TRUE, Version |-> "", Build |-> "", Name |-> "", Scope |-> ""]

ServiceConfig(version, build, name, scope) ==
    [nil |-> FALSE, Version |-> version, Build |-> build, Name |-> name, Scope |-> scope]

NilError == [nil |-> TRUE, msg |-> ""]
ErrorOf(msg) == [nil |-> FALSE, msg |-> msg]

\* ApiResponse of the render service and its json tags: error, stack, request
\* and log are omitempty, every other field is always written.
ApiResponseJSON(e) ==
    LET keys == {"version", "name", "support", "status", "scope", "correlationid", "result"}
                  \cup (IF e.Err # "" THEN {"error"} ELSE {})
                  \cup (IF e.Stack # <<>> THEN {"stack"} ELSE {})
                  \cup (IF DOMAIN e.Request # {} THEN {"request"} ELSE {})
                  \cup (IF DOMAIN e.Log # {} THEN {"log"} ELSE {})
    IN  JObj([k \in keys |->
                CASE k = "version" -> JStr(e.Version)
                  [] k = "name" -> JStr(e.Name)
                  [] k = "support" -> JStr(e.Support)
                  [] k = "status" -> JNum(e.Status)
                  [] k = "scope" -> JStr(e.Scope)
                  [] k = "correlationid" -> JStr(e.CorrelationId)
                  [] k = "error" -> JStr(e.Err)
                  [] k = "stack" -> JArr(e.Stack)
                  [] k = "request" -> StringMapJSON(e.Request)
                  [] k = "log" -> StringMapJSON(e.Log)
                  [] OTHER -> e.Result])

\* ApiResponse as the interceptor builds it (the middleware's minimal version)
\* and its json tags: status and result are always written, every other field
\* is omitempty.
MiddlewareApiResponseJSON(e) ==
    LET keys == {"status", "result"}
                  \cup (IF e.Version # "" THEN {"version"} ELSE {})
                  \cup (IF e.Build # "" THEN {"build"} ELSE {})
                  \cup (IF e.Name # "" THEN {"name"} ELSE {})
                  \cup (IF e.Support # "" THEN {"support"} ELSE {})
                  \cup (IF e.Scope # "" THEN {"scope"} ELSE {})
                  \cup (IF e.CorrelationId # "" THEN {"correlationid"} ELSE {})
                  \cup (IF e.Error # "" THEN {"error"} ELSE {})
    IN  JObj([k \in keys |->
                CASE k = "status" -> JNum(e.Status)
                  [] k = "version" -> JStr(e.Version)
                  [] k = "build" -> JStr(e.Build)
                  [] k = "name" -> JStr(e.Name)
                  [] k = "support" -> JStr(e.Support)
                  [] k = "scope" -> JStr(e.Scope)
                  [] k = "correlationid" -> JStr(e.CorrelationId)
                  [] k = "error" -> JStr(e.Error)
                  [] OTHER -> e.Result])

(***************************************************************************)
(* gin's response writer and render path, as the package calls them        *)
(***************************************************************************)

\* c.Writer.WriteHeader(code) on gin's response writer: the status changes
\* until the header is sent.
WriterWriteHeader(c, code) ==
    IF code > 0 /\ c.status # code /\ ~c.committed THEN [c EXCEPT !.status = code] ELSE c

\* Write on gin's own response writer: sends the header, then the bytes, and
\* returns the connection's error if there is one.
BaseWrite(c, data) ==
    [c EXCEPT !.committed = TRUE, !.out = data, !.nwrites = @ + 1,
              !.werr = c.writerFails]

(***************************************************************************)
(* The JSON middleware and its interceptor                                 *)
(***************************************************************************)
NoLogger == ""

\* (*JSONRendererConfig)(nil)
NilRendererConfig ==
    [nil |-> TRUE, ServiceConfig |-> NilConfig, DefaultLogger |-> NoLogger,
     EnablePrettyPrint |-> FALSE]

\* &JSONRendererConfig{ServiceConfig: sc, DefaultLogger: logger, EnablePrettyPrint: pretty}
RendererConfig(sc, logger, pretty) ==
    [nil |-> FALSE, ServiceConfig |-> sc, DefaultLogger |-> logger,
     EnablePrettyPrint |-> pretty]

\* JSONMiddleware(config)
JSONMiddleware(sc) == RendererConfig(sc, NoLogger, FALSE)

\* JSONMiddlewareWithDefaults()
JSONMiddlewareWithDefaults == JSONMiddleware(NilConfig)

\* JSONMiddlewareWithConfig(config): the handler puts an interceptor in front
\* of c.Writer.
InstallInterceptor(c, config) ==
    [c EXCEPT !.writers = Append(@, [config |-> config, written |-> FALSE])]

\* jsonResponseInterceptor.isDevelopmentMode
IsDevelopmentMode(config) ==
    IF config.nil \/ config.ServiceConfig.nil THEN TRUE
    ELSE config.ServiceConfig.Scope \in {"", "DEV", "DEVELOPMENT"}

InterceptorLoggerFluentKey(config, c) ==
    LET v == c.keys["request_logger"]
    IN  IF v.kind = "logger" THEN v.s
        ELSE IF ~config.nil THEN config.DefaultLogger
        ELSE NoLogger

\* Write: the logger of the request, from the context or the middleware config
InterceptorLogger(config, c) ==
    LET v == c.keys[REQUEST_LOGGER]
    IN  IF v.kind = "logger" THEN v.s
        ELSE IF ~config.nil THEN config.DefaultLogger
        ELSE NoLogger

\* fmt.Sprintf("%v", v) of a parsed JSON value
Sprint(v) ==
    CASE v.t = "str" -> v.v
      [] v.t = "num" -> ToString(v.v)
      [] v.t = "null" -> "<nil>"
      [] v.t = "arr" -> "[...]"
      [] OTHER -> "map[...]"

WrapResponseDefaultsOnly(config, c, jsonData) ==
    [Version |-> "1.0.0", Build |-> "", Name |-> "", Support |-> "",
     Status |-> c.status, Scope |-> "", CorrelationId |-> "",
     Result |-> jsonData, Error |-> ""]

WrapResponseKeepResult(config, c, jsonData) ==
    LET sc == config.ServiceConfig
        useConfig == ~config.nil /\ ~sc.nil
    IN  [Version |-> IF useConfig THEN sc.Version ELSE "1.0.0",
         Build |-> IF useConfig THEN sc.Build ELSE "",
         Name |-> IF useConfig THEN sc.Name ELSE "",
         Support |-> "",
         Status |-> c.status,
         Scope |-> IF useConfig THEN sc.Scope ELSE "",
         CorrelationId |-> GetString(c, "correlation-id"),
         Result |-> jsonData,
         Error |-> IF HasKey(jsonData, "error") THEN Sprint(jsonData.v["error"]) ELSE ""]

\* Write: the ApiResponse built around a body that is not wrapped yet
WrapResponse(config, c, jsonData) ==
    LET sc == config.ServiceConfig
        useConfig == ~config.nil /\ ~sc.nil
    IN  [Version |-> IF useConfig THEN sc.Version ELSE "1.0.0",
         Build |-> IF useConfig THEN sc.Build ELSE "",
         Name |-> IF useConfig THEN sc.Name ELSE "",
         Support |-> "",
         Status |-> c.status,
         Scope |-> IF useConfig THEN sc.Scope ELSE "",
         CorrelationId |-> GetString(c, "correlation-id"),
         Result |-> IF HasKey(jsonData, "error") THEN JNull ELSE jsonData,
         Error |-> IF HasKey(jsonData, "error") THEN Sprint(jsonData.v["error"]) ELSE ""]

\* Write: the body is an ApiResponse already
AlreadyWrapped(jsonData) ==
    HasKey(jsonData, "version") /\ HasKey(jsonData, "name") /\ HasKey(jsonData, "result")

\* Write, after the written flag is set: the bytes handed to the wrapped writer
InterceptBody(config, c, data) ==
    LET parsed == Unmarshal(data)
        style == IF ~config.nil /\ (config.EnablePrettyPrint \/ IsDevelopmentMode(config))
                 THEN "indent2" ELSE "compact"
    IN  IF InterceptorLogger(config, c) = NoLogger THEN data
        ELSE IF ~parsed.ok THEN data
        ELSE IF c.marshalFails THEN data
        ELSE IF AlreadyWrapped(parsed.val) THEN Marshal(Parsed(parsed.val), style)
        ELSE Marshal(StructValue(MiddlewareApiResponseJSON(WrapResponse(config, c, parsed.val))),
                     style)

InterceptorWriteFlagless(w, c, data) ==
    IF ~ContainsApplicationJSON(RespHeader(c, "Content-Type"))
    THEN [written |-> FALSE, data |-> data, err |-> FALSE]
    ELSE [written |-> FALSE, data |-> InterceptBody(w.config, c, data), err |-> FALSE]

InterceptorWriteRejectsUnparsed(w, c, data) ==
    IF w.written THEN [written |-> TRUE, data |-> data, err |-> FALSE]
    ELSE IF ~ContainsApplicationJSON(RespHeader(c, "Content-Type"))
         THEN [written |-> FALSE, data |-> data, err |-> FALSE]
    ELSE [written |-> TRUE, data |-> InterceptBody(w.config, c, data),
          err |-> InterceptorLogger(w.config, c) # NoLogger /\ ~Unmarshal(data).ok]

\* jsonResponseInterceptor.Write: the flag it leaves, the bytes it hands to
\* the writer it wraps, and whether it returns an error of its own instead of
\* the wrapped writer's result (every return of Write is a call of
\* w.ResponseWriter.Write, so it never does)
InterceptorWrite(w, c, data) ==
    IF w.written THEN [written |-> TRUE, data |-> data, err |-> FALSE]
    ELSE IF ~ContainsApplicationJSON(RespHeader(c, "Content-Type"))
         THEN [written |-> FALSE, data |-> data, err |-> FALSE]
    ELSE [written |-> TRUE, data |-> InterceptBody(w.config, c, data), err |-> FALSE]

\* c.Writer.Write(data): through every interceptor installed, the last
\* installed first, down to gin's response writer
RECURSIVE WriteVia(_, _, _)
WriteVia(c, i, data) ==
    IF i = 0 THEN BaseWrite(c, data)
    ELSE LET res == InterceptorWrite(c.writers[i], c, data)
             c1 == [c EXCEPT !.writers[i].written = res.written]
         IN  IF res.err THEN [c1 EXCEPT !.werr = TRUE]
             ELSE WriteVia(c1, i - 1, res.data)

WriterWrite(c, data) == WriteVia(c, Len(c.writers), data)

\* c.JSON(code, obj) (style "compact") and c.IndentedJSON(code, obj) (style
\* "indent4"): status, Content-Type unless one is set, then the body
GinRender(c, code, obj, style) ==
    LET c1 == WriterWriteHeader(c, code)
        c2 == IF RespHeader(c1, "Content-Type") = ""
              THEN Header(c1, "Content-Type", "application/json; charset=utf-8")
              ELSE c1
    IN  WriterWrite(c2, Marshal(obj, style))

(***************************************************************************)
(* gin_extensions.go                                                       *)
(***************************************************************************)
\* ContextExtension.JSON(code, obj), ce.logger being logger (NoLogger when
\* WithLogger was not called)
ExtensionJSON(c, logger, code, obj) ==
    GinRender(IF logger # NoLogger THEN CtxSet(c, "request_logger", LoggerVal(logger)) ELSE c,
              code, obj, "compact")

(***************************************************************************)
(* service_render.go                                                       *)
(***************************************************************************)

\* runtime.Version() and time.Now().Format("20060102.150405")
GoVersions == {"go1.24"}
BuildTimes == {"20250827.084917", "20250827.084918"}

\* loggerToUse.GetMemoryLogs(cid, arbor.DebugLevel): an error, no entry, or entries
LogOutcomes == {"error", "empty", "entries"}

\* arbor.GetLogger()
GlobalLogger == "global-logger"

\* funktion.SplitLines(string(goerr.Stack())): the lines of a stack trace
StackLines == <<"goroutine 1 [running]:", "main.handler()">>

\* strings.ToUpper on the scopes of the model
ToUpper(scope) == IF scope \in {"dev", "Dev"} THEN "DEV" ELSE scope

\* renderservice.getVersion
GetVersion(config, goVersion, buildTime) ==
    (IF ~config.nil /\ config.Version # "" THEN config.Version ELSE "1.0.0")
        \o "+build." \o goVersion \o "." \o buildTime

\* renderservice.getName
GetName(config) == IF ~config.nil /\ config.Name # "" THEN config.Name ELSE "omnis-service"

GetScopeNoDefault(config) == config.Scope

\* renderservice.getScope
GetScope(config) == IF ~config.nil /\ config.Scope # "" THEN config.Scope ELSE "DEV"

\* strings.TrimSpace on the correlation IDs of the model
TrimSpace(s) == IF s = " " THEN "" ELSE s

\* retrievedLogs when GetMemoryLogs finds entries: they are the queried
\* logger's
RetrievedLogs(loggerToUse) ==
    "001" :> ("INF|" \o loggerToUse \o "|handler started")
        @@ "002" :> ("INF|" \o loggerToUse \o "|handler finished")

MemoryLogsNoFallback(svc, cid, outcome) ==
    LET loggerToUse == IF svc.logger # NoLogger THEN svc.logger ELSE GlobalLogger
    IN  IF TrimSpace(cid) = "" THEN [queried |-> NoLogger,
            log |-> ("000" :> "WRN|No correlation ID found - memory logging unavailable")]
        ELSE IF outcome = "error" THEN [queried |-> loggerToUse,
            log |-> ("000" :> "WRN|error retrieving logs memory writer unavailable")]
        ELSE IF outcome = "entries" THEN [queried |-> loggerToUse,
            log |-> RetrievedLogs(loggerToUse)]
        ELSE [queried |-> loggerToUse, log |-> <<>>]

\* getApiResponse, lines 152-177: the logger queried and the log map
MemoryLogs(svc, cid, outcome) ==
    LET loggerToUse == IF svc.logger # NoLogger THEN svc.logger ELSE GlobalLogger
        found == IF TrimSpace(cid) = "" THEN [queried |-> NoLogger,
                     log |-> ("000" :> "WRN|No correlation ID found - memory logging unavailable")]
                 ELSE IF outcome = "error" THEN [queried |-> loggerToUse,
                     log |-> ("000" :> "WRN|error retrieving logs memory writer unavailable")]
                 ELSE IF outcome = "entries" THEN [queried |-> loggerToUse,
                     log |-> RetrievedLogs(loggerToUse)]
                 ELSE [queried |-> loggerToUse, log |-> <<>>]
    IN  IF DOMAIN found.log = {}
        THEN [found EXCEPT !.log = ("000" :> ("WRN|No logs found for this request (memory logging may not be properly configured) CorrelationID:" \o cid))]
        ELSE found

\* renderservice.getApiResponse(code); the request has no path parameter, no
\* form field and no query string.
GetApiResponse(c, svc, code, env) ==
    [Version |-> GetVersion(svc.config, env.goVersion, env.buildTime),
     Name |-> GetName(svc.config),
     Support |-> "",
     Status |-> code,
     Scope |-> GetScope(svc.config),
     CorrelationId |-> GetCorrelationID(c),
     Err |-> "",
     Stack |-> <<>>,
     Request |-> IF GetScope(svc.config) # "PRD" THEN ("url" :> c.path) ELSE <<>>,
     Log |-> MemoryLogs(svc, GetCorrelationID(c), env.logs).log,
     Result |-> JNull]

WithErrorAnyScope(output, svc, err) ==
    IF ~err.nil THEN [output EXCEPT !.Err = err.msg, !.Stack = StackLines] ELSE output

\* AsError / AsResultWithError, lines 91-98 and 108-115: errors.Wrap(err, 3),
\* its message and its stack, in DEV only
WithError(output, svc, err) ==
    IF ~err.nil /\ GetScope(svc.config) = "DEV"
    THEN [output EXCEPT !.Err = err.msg, !.Stack = StackLines]
    ELSE output

RespondWithJSONExactScope(c, svc, code, output) ==
    GinRender(Header(c, "Content-Type", "application/json"), code,
              StructValue(ApiResponseJSON(output)),
              IF GetScope(svc.config) = "DEV" THEN "indent4" ELSE "compact")

\* renderservice.respondwithJSON(code, payload)
RespondWithJSON(c, svc, code, output) ==
    GinRender(Header(c, "Content-Type", "application/json"), code,
              StructValue(ApiResponseJSON(output)),
              IF ToUpper(GetScope(svc.config)) = "DEV" THEN "indent4" ELSE "compact")

\* The ApiResponse a render method hands to respondwithJSON:
\* AsResult(code, payload), AsResultWithError(code, payload, err), AsError(code, err)
RenderOutput(c, svc, method, code, payload, err, env) ==
    LET output == GetApiResponse(c, svc, code, env)
    IN  CASE method = "AsResult" -> [output EXCEPT !.Result = payload.val]
          [] method = "AsResultWithError" ->
                WithError([output EXCEPT !.Result = payload.val], svc, err)
          [] OTHER -> WithError(output, svc, err)

ExtensionConvenienceCodeAlwaysOK(method) == 200

\* ContextExtension.Success, Created, BadRequest, Unauthorized, NotFound and
\* InternalServerError: the http.Status* constant each hands to ce.JSON
ExtensionConvenienceCode(method) ==
    CASE method = "Success" -> 200
      [] method = "Created" -> 201
      [] method = "BadRequest" -> 400
      [] method = "Unauthorized" -> 401
      [] method = "NotFound" -> 404
      [] OTHER -> 500

ConvenienceMethods ==
    {"Success", "Created", "BadRequest", "Unauthorized", "NotFound", "InternalServerError"}

(***************************************************************************)
(* middleware_jsonrenderer.go: the JSONRenderer and its middleware         *)
(***************************************************************************)
\* &JSONRenderer{ctx: c}
NewJSONRenderer ==
    [logger |-> NoLogger, config |-> NilConfig, defaultLogger |-> NoLogger,
     enablePretty |-> FALSE]

\* JSONMiddlewareWithConfig(config): the renderer its handler stores under
\* "json_renderer"
MiddlewareJSONRenderer(config) ==
    [logger |-> NoLogger, config |-> config.ServiceConfig,
     defaultLogger |-> config.DefaultLogger, enablePretty |-> config.EnablePrettyPrint]

\* A *JSONRenderer as a context value
RendererVal(j) == [kind |-> "renderer", s |-> "", renderer |-> j]

JSONAlwaysNew(c) == NewJSONRenderer

\* JSON(c): the renderer of the context, or a new one
JSON(c) ==
    IF c.keys["json_renderer"].kind = "renderer" THEN c.keys["json_renderer"].renderer
    ELSE NewJSONRenderer

\* WithLogger(logger), when called (logger is NoLogger when it is not)
RendererWithLogger(j, logger) == IF logger # NoLogger THEN [j EXCEPT !.logger = logger] ELSE j

\* WithConfig(config), when called
RendererWithConfig(j, called, config) == IF called THEN [j EXCEPT !.config = config] ELSE j

\* JSONRenderer.getEffectiveLogger
GetEffectiveLogger(j) == IF j.logger # NoLogger THEN j.logger ELSE j.defaultLogger

\* JSONRenderer.isDevelopmentScope
IsDevelopmentScope(j) == j.config.nil \/ j.config.Scope \in {"", "DEV", "DEVELOPMENT"}

\* Response, Error and ResultWithError: the render service they set up,
\* WithLogger only for j.logger and WithConfig only for a non-nil j.config
RendererService(j) == [logger |-> j.logger, config |-> j.config]

RendererMethods ==
    {"Response", "Error", "ResultWithError", "Simple"} \cup ConvenienceMethods

\* Success, Created, BadRequest, Unauthorized, NotFound, InternalServerError of
\* the JSONRenderer: the method each calls and the code it passes; any other
\* method is called with the handler's code
RendererTarget(method, code) ==
    CASE method = "Success" -> [method |-> "Response", code |-> 200]
      [] method = "Created" -> [method |-> "Response", code |-> 201]
      [] method = "BadRequest" -> [method |-> "Error", code |-> 400]
      [] method = "Unauthorized" -> [method |-> "Error", code |-> 401]
      [] method = "NotFound" -> [method |-> "Error", code |-> 404]
      [] method = "InternalServerError" -> [method |-> "Error", code |-> 500]
      [] OTHER -> [method |-> method, code |-> code]

\* JSONRenderer.Simple(code, data)
Simple(c, j, code, data) ==
    GinRender(c, code, data,
              IF j.enablePretty \/ IsDevelopmentScope(j) THEN "indent4" ELSE "compact")

\* A method of the JSONRenderer j called on the context c
RendererCall(c, j, method, code, data, err, env) ==
    LET t == RendererTarget(method, code)
        svc == RendererService(j)
        as == CASE t.method = "Response" -> "AsResult"
                [] t.method = "ResultWithError" -> "AsResultWithError"
                [] OTHER -> "AsError"
    IN  IF t.method = "Simple" THEN Simple(c, j, t.code, data)
        ELSE RespondWithJSON(c, svc, t.code,
                             RenderOutput(c, svc, as, t.code, data, err, env))

(***************************************************************************)
(* middleware_correlationid_scoped.go                                      *)
(***************************************************************************)
\* The createLogger handed to RequestScopedLoggerMiddleware: nil, a factory
\* whose loggers have a method WithCorrelationId(string) interface{}, or one
\* whose loggers have none with that signature (arbor's returns an ILogger).
Factories == {"nil", "configurable", "arbor"}

\* A logger instance as a context value, with the correlation ID it was
\* configured with ("" when it was not configured)
ScopedLoggerVal(instance, cid) == [kind |-> "logger", s |-> instance, cid |-> cid]

\* createLogger(): a fresh instance on each call, made is the number of calls
\* before this one
CreateLogger(made) == "logger-" \o ToString(made + 1)

\* lines 33-40: the logger is configured when there is a correlation ID and the
\* type assertion succeeds
ConfigureLogger(factory, instance, correlationID) ==
    IF correlationID # "" /\ factory = "configurable"
    THEN ScopedLoggerVal(instance, correlationID)
    ELSE ScopedLoggerVal(instance, "")

\* lines 43-46: c.Set("logger", requestLogger); c.Set("arbor", requestLogger)
StoreRequestLogger(c, requestLogger) ==
    CtxSet(CtxSet(c, "logger", requestLogger), "arbor", requestLogger)

(***************************************************************************)
(* middleware_headers.go                                                   *)
(***************************************************************************)
ServiceNameVersionJointFallback(config) ==
    IF config.nil \/ config.Name = "" \/ config.Version = ""
    THEN [name |-> "omnis-service", version |-> "1.0.0"]
    ELSE [name |-> config.Name, version |-> config.Version]

\* SetHeaders, lines 15-25: name and version, each from the config when the
\* config is there and the field is not empty
ServiceNameVersion(config) ==
    [name |-> IF ~config.nil /\ config.Name # "" THEN config.Name ELSE "omnis-service",
     version |-> IF ~config.nil /\ config.Version # "" THEN config.Version ELSE "1.0.0"]

\* SetHeaders, lines 27-28: the two ctx.Header calls
SetHeaders(c, config) ==
    LET nv == ServiceNameVersion(config)
    IN  Header(Header(c, "x-t3b-app", "app:" \o nv.name),
               "x-t3b-version", "version:" \o nv.version)

(***************************************************************************)
(* StaticRequests and mergeUnique                                          *)
(***************************************************************************)
defaultExceptions == <<"static/", "fav.ico", "favicon.ico", ".ico">>

\* funktion.ArrayContains(arr, str): some element of arr is str
ArrayContains(arr, str) == \E i \in 1..Len(arr) : arr[i] = str

\* mergeUnique's loop over combined: each value once, in order of first
\* occurrence
RECURSIVE Unique(_, _)
Unique(combined, output) ==
    IF combined = <<>> THEN output
    ELSE Unique(Tail(combined),
                IF ArrayContains(output, Head(combined)) THEN output
                ELSE Append(output, Head(combined)))

\* mergeUnique(arr1, arr2)
mergeUnique(arr1, arr2) == Unique(arr1 \o arr2, <<>>)

\* time.Now(), in minutes
Clock == {10, 11}

\* time.Now().Add(time.Minute*-1).Format(time.RFC3339)
ExpiresValue(now) == "minute-" \o ToString(now - 1)

StaticScopeNoDefault(config) == config.Scope

\* StaticRequests, lines 137-140: the scope, "DEV" unless the config names one
StaticScope(config) == IF ~config.nil /\ config.Scope # "" THEN config.Scope ELSE "DEV"

\* StaticRequests, lines 130-146: the context as the handler leaves it before
\* ctx.Next()
StaticRequests(c, config, e, now) ==
    LET requestExceptions == mergeUnique(defaultExceptions, e)
    IN  IF c.fullPath # "" /\ ArrayContains(requestExceptions, c.fullPath)
           /\ StaticScope(config) = "DEV"
        THEN Header(c, "Expires", ExpiresValue(now))
        ELSE c

(***************************************************************************)
(* Inputs                                                                  *)
(***************************************************************************)

\* Status codes the handlers pass (all of them allow a body)
Codes == {200, 400}

\* gin.H{...} values handed to c.JSON, and nil
MessageBody == Parsed(JObj("message" :> JStr("hello") @@ "status" :> JStr("success")))
ErrorBody == Parsed(JObj("error" :> JStr("invalid input") @@ "detail" :> JStr("x")))
EnvelopeLikeBody ==
    Parsed(JObj("version" :> JStr("9.9") @@ "name" :> JStr("other") @@ "result" :> JStr("inner")))
NilBody == Parsed(JNull)
ErrorCodeBody == Parsed(JObj("error" :> JNum(42)))
Bodies == {MessageBody, ErrorBody, ErrorCodeBody, EnvelopeLikeBody, NilBody}

\* payloads handed to the render service
Payloads == {MessageBody, NilBody}

\* errors handed to the render service
Errors == {NilError, ErrorOf("boom"), ErrorOf("")}

\* *ServiceConfig values
ServiceConfigs ==
    {ServiceConfig("", "", "", "")}
        \cup {ServiceConfig("2.1.0", "b7", "svc", scope) : scope \in {"DEV", "PRD", "DEVELOPMENT", "dev"}}
        \cup {ServiceConfig("", "b7", "", "PRD"), ServiceConfig("2.1.0", "", "svc", "")}

\* the config handed to WithConfig (nil when WithConfig is not called)
RenderConfigs ==
    {NilConfig, ServiceConfig("", "", "", ""), ServiceConfig("", "", "svc", "TEST")}
        \cup {ServiceConfig("2.1.0", "b7", "svc", scope) : scope \in {"DEV", "PRD", "dev"}}

\* the config handed to the renderer's WithConfig
RendererWithConfigs == {NilConfig, ServiceConfig("3.0.0", "", "other", "PRD")}

\* *JSONRendererConfig values handed to the middleware that stores a renderer
\* (a nil one makes its handler panic)
StoredRendererConfigs ==
    {RendererConfig(sc, logger, pretty) :
        sc \in {NilConfig, ServiceConfig("2.1.0", "b7", "svc", "DEV"),
                ServiceConfig("2.1.0", "b7", "svc", "PRD")},
        logger \in {NoLogger, "default-logger"},
        pretty \in BOOLEAN}

\* *JSONRendererConfig values
RendererConfigs ==
    {NilRendererConfig}
        \cup {RendererConfig(sc, logger, pretty) :
                sc \in ServiceConfigs \cup {NilConfig},
                logger \in {NoLogger, "default-logger"},
                pretty \in BOOLEAN}

\* the config handed to SetHeaders and to StaticRequests
HeaderConfigs ==
    {NilConfig, ServiceConfig("", "", "", ""), ServiceConfig("2.1.0", "b7", "", "DEV"),
     ServiceConfig("", "b7", "svc", "PRD"), ServiceConfig("2.1.0", "b7", "svc", "DEV"),
     ServiceConfig("2.1.0", "b7", "svc", "dev"), ServiceConfig("2.1.0", "b7", "svc", "")}

\* the exception list handed to StaticRequests (nil, or the documented one)
CallerExceptions == {<<>>, <<"assets/", "favicon.ico">>}

\* ctx.FullPath(): the path of the matched route, "" when no route matched
RoutePaths == {"", "static/", ".ico", "assets/", "/static/*filepath", "/api/users"}

\* the Content-Type a handler sets before it writes, and the bytes it writes
ContentTypes == {"text/plain; charset=utf-8", "application/json; charset=utf-8"}
WrittenBytes == {TextBytes, Marshal(MessageBody, "compact")}

\* the middleware config of the requests that write more than once
WriteConfigs ==
    {NilRendererConfig,
     RendererConfig(ServiceConfig("2.1.0", "b7", "svc", "PRD"), "default-logger", FALSE)}

\* the configs of JSON middlewares stacked on one router
StackConfigs ==
    {NilRendererConfig, JSONMiddlewareWithDefaults,
     RendererConfig(NilConfig, "default-logger", FALSE),
     RendererConfig(ServiceConfig("2.1.0", "b7", "svc", "PRD"), "default-logger", FALSE),
     RendererConfig(ServiceConfig("2.1.0", "b7", "", "DEV"), NoLogger, TRUE)}

(***************************************************************************)
(* The router                                                              *)
(***************************************************************************)
Reqs == DOMAIN pc

\* r.Use(SetCorrelationID())
UseSetCorrelationID == [name |-> "SetCorrelationID", config |-> NilRendererConfig]

\* r.Use(JSONMiddlewareWithConfig(config))
UseJSONMiddleware(config) == [name |-> "JSONMiddleware", config |-> config]

\* r.Use(RequestScopedLoggerMiddleware(createLogger))
UseRequestScopedLogger(factory) ==
    [name |-> "RequestScopedLogger", config |-> NilRendererConfig, factory |-> factory]

\* r.Use(JSONMiddlewareWithConfig(config)) of middleware_jsonrenderer.go
UseJSONRenderer(config) == [name |-> "JSONRenderer", config |-> config]

\* r.Use(SetHeaders(config))
UseSetHeaders(config) == [name |-> "SetHeaders", config |-> config]

\* r.Use(StaticRequests(config, e))
UseStaticRequests(config, e) == [name |-> "StaticRequests", config |-> config, e |-> e]

\* c.Next(): the next middleware of the chain, or the handler after the last
AfterNext(i) == IF i + 1 > Len(router) THEN "handler" ELSE "mw"

NoCall ==
    [op |-> "none", nilArg |-> FALSE, ret |-> "", before |-> NilCtx]

(***************************************************************************)
(* Actions                                                                 *)
(***************************************************************************)

\* SetCorrelationID, lines 15-31
SetCorrelationIDResolve(r) ==
    /\ pc[r] = "mw"
    /\ router[idx[r]].name = "SetCorrelationID"
    /\ \E uuid \in UUIDs :
          cidLocal' = [cidLocal EXCEPT ![LocalSlot(r)] = ResolveCorrelationID(ctx[r], uuid)]
    /\ pc' = [pc EXCEPT ![r] = "cid"]
    /\ UNCHANGED <<router, ctx, idx, last, gen, nops>>

\* SetCorrelationID, lines 34-41
SetCorrelationIDStore(r) ==
    /\ pc[r] = "cid"
    /\ ctx' = [ctx EXCEPT ![r] = StoreCorrelationID(ctx[r], cidLocal[LocalSlot(r)])]
    /\ last' = [last EXCEPT ![r] = [NoCall EXCEPT !.op = "SetCorrelationID",
                                                  !.before = ctx[r]]]
    /\ idx' = [idx EXCEPT ![r] = idx[r] + 1]
    /\ pc' = [pc EXCEPT ![r] = AfterNext(idx[r])]
    /\ UNCHANGED <<router, cidLocal, gen, nops>>

\* a handler calling GetCorrelationID(c), with its own context or with nil
HandlerGetCorrelationID(r) ==
    /\ pc[r] = "handler"
    /\ nops[r] < MaxOps
    /\ \E useNil \in BOOLEAN :
          LET call == GetCorrelationIDCall(IF useNil THEN NilCtx ELSE ctx[r])
          IN  /\ ctx' = [ctx EXCEPT ![r] = IF useNil THEN ctx[r] ELSE call.c]
              /\ last' = [last EXCEPT ![r] = [NoCall EXCEPT !.op = "GetCorrelationID",
                                                            !.nilArg = useNil,
                                                            !.ret = call.ret,
                                                            !.before = ctx[r]]]
    /\ nops' = [nops EXCEPT ![r] = nops[r] + 1]
    /\ UNCHANGED <<router, pc, idx, cidLocal, gen>>

\* a handler calling GetCorrelationIDOrGenerate(c), with its own context or with nil
HandlerGetCorrelationIDOrGenerate(r) ==
    /\ pc[r] = "handler"
    /\ nops[r] < MaxOps
    /\ \E useNil \in BOOLEAN, uuid \in UUIDs :
          LET call == GetCorrelationIDOrGenerateCall(IF useNil THEN NilCtx ELSE ctx[r], uuid)
          IN  /\ ctx' = [ctx EXCEPT ![r] = IF useNil THEN ctx[r] ELSE call.c]
              /\ last' = [last EXCEPT ![r] = [NoCall EXCEPT !.op = "GetCorrelationIDOrGenerate",
                                                            !.nilArg = useNil,
                                                            !.ret = call.ret,
                                                            !.before = ctx[r]]]
              /\ gen' = [gen EXCEPT ![r] = IF useNil THEN gen[r] ELSE call.ret]
    /\ nops' = [nops EXCEPT ![r] = nops[r] + 1]
    /\ UNCHANGED <<router, pc, idx, cidLocal>>

\* JSONMiddlewareWithConfig's handler: installs the interceptor, then c.Next()
JSONMiddlewareWithConfig(r) ==
    /\ pc[r] = "mw"
    /\ router[idx[r]].name = "JSONMiddleware"
    /\ ctx' = [ctx EXCEPT ![r] = InstallInterceptor(ctx[r], router[idx[r]].config)]
    /\ idx' = [idx EXCEPT ![r] = idx[r] + 1]
    /\ pc' = [pc EXCEPT ![r] = AfterNext(idx[r])]
    /\ UNCHANGED <<router, cidLocal, last, gen, nops>>

\* No interceptor of the request has transformed a Write yet.
NothingIntercepted(c) == \A i \in 1..Len(c.writers) : ~c.writers[i].written

\* a handler calling c.JSON(code, obj)
HandlerJSON(r) ==
    /\ pc[r] = "handler"
    /\ nops[r] < MaxOps
    /\ \E code \in Codes, obj \in Bodies :
          /\ ctx' = [ctx EXCEPT ![r] = GinRender(ctx[r], code, obj, "compact")]
          /\ last' = [last EXCEPT ![r] =
                        [op |-> "JSON", via |-> "c.JSON", logger |-> NoLogger,
                         code |-> code, obj |-> obj, data |-> Marshal(obj, "compact"),
                         fresh |-> NothingIntercepted(ctx[r])]]
    /\ nops' = [nops EXCEPT ![r] = nops[r] + 1]
    /\ UNCHANGED <<router, pc, idx, cidLocal, gen>>

\* a handler calling omnis.C(c).JSON(code, obj) or
\* omnis.C(c).WithLogger(log).JSON(code, obj)
HandlerExtensionJSON(r) ==
    /\ pc[r] = "handler"
    /\ nops[r] < MaxOps
    /\ \E logger \in {NoLogger, "handler-logger"}, code \in Codes, obj \in Bodies :
          /\ ctx' = [ctx EXCEPT ![r] = ExtensionJSON(ctx[r], logger, code, obj)]
          /\ last' = [last EXCEPT ![r] =
                        [op |-> "JSON", via |-> "C(c).JSON", logger |-> logger,
                         code |-> code, obj |-> obj, data |-> Marshal(obj, "compact"),
                         fresh |-> NothingIntercepted(ctx[r])]]
    /\ nops' = [nops EXCEPT ![r] = nops[r] + 1]
    /\ UNCHANGED <<router, pc, idx, cidLocal, gen>>

\* a handler calling RenderService(c)[.WithLogger(logger)][.WithConfig(config)]
\* and then AsResult, AsResultWithError or AsError, as its only response, and
\* returning
HandlerRender(r) ==
    /\ pc[r] = "handler"
    /\ nops[r] < MaxOps
    /\ ~ctx[r].committed
    /\ \E method \in {"AsResult", "AsResultWithError", "AsError"},
          config \in RenderConfigs, logger \in {NoLogger, "handler-logger"},
          code \in Codes, payload \in Payloads, err \in Errors,
          goVersion \in GoVersions, buildTime \in BuildTimes, logs \in LogOutcomes :
          LET svc == [logger |-> logger, config |-> config]
              env == [goVersion |-> goVersion, buildTime |-> buildTime, logs |-> logs]
              output == RenderOutput(ctx[r], svc, method, code, payload, err, env)
          IN  /\ ctx' = [ctx EXCEPT ![r] = RespondWithJSON(ctx[r], svc, code, output)]
              /\ last' = [last EXCEPT ![r] =
                            [op |-> "Render", method |-> method, config |-> config,
                             logger |-> logger, code |-> code, payload |-> payload,
                             err |-> err, env |-> env, before |-> ctx[r]]]
    /\ nops' = [nops EXCEPT ![r] = nops[r] + 1]
    /\ pc' = [pc EXCEPT ![r] = "done"]
    /\ UNCHANGED <<router, idx, cidLocal, gen>>

\* a handler calling one of the convenience methods of omnis.C(c), with or
\* without WithLogger
HandlerExtensionConvenience(r) ==
    /\ pc[r] = "handler"
    /\ nops[r] < MaxOps
    /\ \E method \in ConvenienceMethods, logger \in {NoLogger, "handler-logger"},
          obj \in {MessageBody} :
          LET code == ExtensionConvenienceCode(method)
          IN  /\ ctx' = [ctx EXCEPT ![r] = ExtensionJSON(ctx[r], logger, code, obj)]
              /\ last' = [last EXCEPT ![r] =
                            [op |-> "JSON", via |-> "C(c)." \o method, logger |-> logger,
                             code |-> code, obj |-> obj, data |-> Marshal(obj, "compact"),
                             fresh |-> NothingIntercepted(ctx[r])]]
    /\ nops' = [nops EXCEPT ![r] = nops[r] + 1]
    /\ UNCHANGED <<router, pc, idx, cidLocal, gen>>

\* JSONMiddlewareWithConfig's handler in middleware_jsonrenderer.go: stores a
\* renderer under "json_renderer", then c.Next()
JSONRendererMiddleware(r) ==
    /\ pc[r] = "mw"
    /\ router[idx[r]].name = "JSONRenderer"
    /\ ctx' = [ctx EXCEPT ![r] =
                 CtxSet(ctx[r], "json_renderer",
                        RendererVal(MiddlewareJSONRenderer(router[idx[r]].config)))]
    /\ idx' = [idx EXCEPT ![r] = idx[r] + 1]
    /\ pc' = [pc EXCEPT ![r] = AfterNext(idx[r])]
    /\ UNCHANGED <<router, cidLocal, last, gen, nops>>

\* a handler calling omnis.JSON(c)[.WithLogger(logger)][.WithConfig(config)]
\* and then one method of the renderer as its response, and returning.
\* WithLogger and
\* WithConfig change the renderer JSON(c) returned, which is the one in the
\* context when the middleware stored one.
HandlerRenderer(r) ==
    /\ pc[r] = "handler"
    /\ nops[r] < MaxOps
    /\ Len(ctx[r].writers) = 0
    /\ ~ctx[r].committed
    /\ \E method \in RendererMethods, logger \in {NoLogger, "handler-logger"},
          withConfig \in BOOLEAN, config \in RendererWithConfigs,
          code \in Codes, data \in Payloads, err \in {NilError, ErrorOf("boom")},
          goVersion \in GoVersions, buildTime \in BuildTimes, logs \in LogOutcomes :
          LET stored == ctx[r].keys["json_renderer"].kind = "renderer"
              j == RendererWithConfig(RendererWithLogger(JSON(ctx[r]), logger),
                                      withConfig, config)
              c == IF stored THEN CtxSet(ctx[r], "json_renderer", RendererVal(j)) ELSE ctx[r]
              t == RendererTarget(method, code)
              env == [goVersion |-> goVersion, buildTime |-> buildTime, logs |-> logs]
              through == t.method # "Simple"
          IN  /\ withConfig \/ config = NilConfig
              /\ t.method \in {"Response", "Simple"} => err = NilError
              /\ t.method = "Error" => data = NilBody
              /\ ~through => (buildTime = "20250827.084917" /\ logs = "empty")
              /\ ctx' = [ctx EXCEPT ![r] = RendererCall(c, j, method, code, data, err, env)]
              /\ last' = [last EXCEPT ![r] =
                            [op |-> "Renderer", method |-> method, target |-> t.method,
                             code |-> t.code, logger |-> logger, withConfig |-> withConfig,
                             stored |-> stored, renderer |-> j, payload |-> data,
                             err |-> err, env |-> env, before |-> ctx[r]]]
    /\ nops' = [nops EXCEPT ![r] = nops[r] + 1]
    /\ pc' = [pc EXCEPT ![r] = "done"]
    /\ UNCHANGED <<router, idx, cidLocal, gen>>

\* RequestScopedLoggerMiddleware, line 26: correlationID := c.GetString(...)
RequestScopedLoggerRead(r) ==
    /\ pc[r] = "mw"
    /\ router[idx[r]].name = "RequestScopedLogger"
    /\ cidLocal' = [cidLocal EXCEPT ![LocalSlot(r)] = GetString(ctx[r], CORRELATION_ID_KEY)]
    /\ pc' = [pc EXCEPT ![r] = "scoped"]
    /\ UNCHANGED <<router, ctx, idx, last, gen, nops>>

\* The number of loggers the factory has made so far: one per request that is
\* past line 30.
LoggersMade == Cardinality({q \in Reqs : ctx[q].keys["logger"].kind = "logger"})

\* RequestScopedLoggerMiddleware, lines 28-50: create, configure and store the
\* logger unless the factory is nil, then c.Next()
RequestScopedLoggerStore(r) ==
    /\ pc[r] = "scoped"
    /\ LET factory == router[idx[r]].factory
           requestLogger == ConfigureLogger(factory, CreateLogger(LoggersMade),
                                            cidLocal[LocalSlot(r)])
       IN  ctx' = [ctx EXCEPT ![r] = IF factory = "nil" THEN ctx[r]
                                     ELSE StoreRequestLogger(ctx[r], requestLogger)]
    /\ idx' = [idx EXCEPT ![r] = idx[r] + 1]
    /\ pc' = [pc EXCEPT ![r] = AfterNext(idx[r])]
    /\ UNCHANGED <<router, cidLocal, last, gen, nops>>

\* a handler reading c.Get("logger") and c.Get("arbor")
HandlerGetLogger(r) ==
    /\ pc[r] = "handler"
    /\ nops[r] < MaxOps
    /\ last' = [last EXCEPT ![r] =
                  [op |-> "GetLogger", logger |-> ctx[r].keys["logger"],
                   arbor |-> ctx[r].keys["arbor"]]]
    /\ nops' = [nops EXCEPT ![r] = nops[r] + 1]
    /\ UNCHANGED <<router, ctx, pc, idx, cidLocal, gen>>

\* SetHeaders' handler: both headers, then ctx.Next()
SetHeadersMiddleware(r) ==
    /\ pc[r] = "mw"
    /\ router[idx[r]].name = "SetHeaders"
    /\ ctx' = [ctx EXCEPT ![r] = SetHeaders(ctx[r], router[idx[r]].config)]
    /\ last' = [last EXCEPT ![r] = [NoCall EXCEPT !.op = "SetHeaders", !.before = ctx[r]]]
    /\ idx' = [idx EXCEPT ![r] = idx[r] + 1]
    /\ pc' = [pc EXCEPT ![r] = AfterNext(idx[r])]
    /\ UNCHANGED <<router, cidLocal, gen, nops>>

\* StaticRequests' handler: the Expires header or not, then ctx.Next()
StaticRequestsMiddleware(r) ==
    /\ pc[r] = "mw"
    /\ router[idx[r]].name = "StaticRequests"
    /\ \E now \in Clock :
          ctx' = [ctx EXCEPT ![r] =
                    StaticRequests(ctx[r], router[idx[r]].config, router[idx[r]].e, now)]
    /\ last' = [last EXCEPT ![r] = [NoCall EXCEPT !.op = "StaticRequests", !.before = ctx[r]]]
    /\ idx' = [idx EXCEPT ![r] = idx[r] + 1]
    /\ pc' = [pc EXCEPT ![r] = AfterNext(idx[r])]
    /\ UNCHANGED <<router, cidLocal, gen, nops>>

\* a handler calling c.Header("Content-Type", contentType) and then
\* c.Writer.Write(data)
HandlerWrite(r) ==
    /\ pc[r] = "handler"
    /\ nops[r] < MaxOps
    /\ \E contentType \in ContentTypes, data \in WrittenBytes :
          /\ ctx' = [ctx EXCEPT ![r] =
                       WriterWrite(Header(ctx[r], "Content-Type", contentType), data)]
          /\ last' = [last EXCEPT ![r] =
                        [op |-> "Write", contentType |-> contentType, data |-> data,
                         before |-> ctx[r]]]
    /\ nops' = [nops EXCEPT ![r] = nops[r] + 1]
    /\ UNCHANGED <<router, pc, idx, cidLocal, gen>>

(***************************************************************************)
(* Specifications                                                          *)
(***************************************************************************)
CtxValues == {NoVal, StrVal(""), StrVal("ctx-id"), StrVal(Unknown), OtherVal}
HeaderValues == {"", "hdr-id", Unknown}
LegacyHeaderValues == {"", "legacy-id"}

StartPc(chain) == IF Len(chain) = 0 THEN "handler" ELSE "mw"

\* The requests rs enter the chain.
Enter(rs) ==
    /\ pc = [r \in rs |-> StartPc(router)]
    /\ idx = [r \in rs |-> 1]
    /\ cidLocal = [r \in rs |-> ""]
    /\ last = [r \in rs |-> NoCall]
    /\ gen = [r \in rs |-> ""]
    /\ nops = [r \in rs |-> 0]

\* One request; every combination of context value and request headers.
Init ==
    /\ router \in {<<>>, <<UseSetCorrelationID>>}
    /\ \E v \in CtxValues, x \in HeaderValues, l \in LegacyHeaderValues :
          ctx = [r \in {1} |->
                   NewContext([k \in CtxKeys |-> IF k = CORRELATION_ID_KEY THEN v ELSE NoVal],
                              [h \in ReqHeaderNames |-> IF h = "X-Correlation-Id" THEN x ELSE l])]
    /\ Enter({1})

Next ==
    \/ \E r \in Reqs : SetCorrelationIDResolve(r)
    \/ \E r \in Reqs : SetCorrelationIDStore(r)
    \/ \E r \in Reqs : HandlerGetCorrelationID(r)
    \/ \E r \in Reqs : HandlerGetCorrelationIDOrGenerate(r)

Spec == Init /\ [][Next]_vars

\* Concurrent requests through SetCorrelationID, each with its own header.
ConcIDs == {"req-a", "req-b", "req-c", "req-d"}

InitConc ==
    /\ router = <<UseSetCorrelationID>>
    /\ \E hdr \in [1..NumReqs -> ConcIDs] :
          /\ \A p, q \in 1..NumReqs : p # q => hdr[p] # hdr[q]
          /\ ctx = [r \in 1..NumReqs |->
                      NewContext([k \in CtxKeys |-> NoVal],
                                 [h \in ReqHeaderNames |-> IF h = "X-Correlation-Id" THEN hdr[r] ELSE ""])]
    /\ Enter(1..NumReqs)

NextConc ==
    \/ \E r \in Reqs : SetCorrelationIDResolve(r)
    \/ \E r \in Reqs : SetCorrelationIDStore(r)
    \/ \E r \in Reqs : HandlerGetCorrelationID(r)

SpecConc == InitConc /\ [][NextConc]_vars

\* One request through the render service, with or without SetCorrelationID in
\* front and with or without an X-Correlation-ID header; an earlier middleware
\* may have stored a blank correlation ID in the context.
InitRender ==
    /\ router \in {<<>>, <<UseSetCorrelationID>>}
    /\ \E x \in {"", "hdr-id"}, v \in {NoVal, StrVal(" ")} :
          ctx = [r \in {1} |->
                   NewContext([k \in CtxKeys |-> IF k = CORRELATION_ID_KEY THEN v ELSE NoVal],
                              [h \in ReqHeaderNames |-> IF h = "X-Correlation-Id" THEN x ELSE ""])]
    /\ Enter({1})

NextRender ==
    \/ \E r \in Reqs : SetCorrelationIDResolve(r)
    \/ \E r \in Reqs : SetCorrelationIDStore(r)
    \/ \E r \in Reqs : HandlerRender(r)

SpecRender == InitRender /\ [][NextRender]_vars

\* One request through the JSON middleware, in either of its two versions.
\* The interceptor (part_001), for every middleware config, with or without
\* SetCorrelationID in front; an earlier middleware may have stored a logger (or
\* something that is no logger) under REQUEST_LOGGER.  Or the stored renderer
\* (middleware_jsonrenderer.go), with the middleware or without it.
InitJSON ==
    \/ /\ \E config \in RendererConfigs :
             router \in {<<UseJSONMiddleware(config)>>,
                         <<UseSetCorrelationID, UseJSONMiddleware(config)>>}
       /\ \E v \in {NoVal, LoggerVal("request-logger"), OtherVal} :
             ctx = [r \in {1} |->
                      NewContext([k \in CtxKeys |-> IF k = REQUEST_LOGGER THEN v ELSE NoVal],
                                 [h \in ReqHeaderNames |-> IF h = "X-Correlation-Id" THEN "hdr-id" ELSE ""])]
       /\ Enter({1})
    \/ /\ \E config \in StoredRendererConfigs :
             router \in {<<>>, <<UseJSONRenderer(config)>>,
                         <<UseSetCorrelationID, UseJSONRenderer(config)>>}
       /\ ctx = [r \in {1} |->
                   NewContext([k \in CtxKeys |-> NoVal],
                              [h \in ReqHeaderNames |-> IF h = "X-Correlation-Id" THEN "hdr-id" ELSE ""])]
       /\ Enter({1})

NextJSON ==
    \/ \E r \in Reqs : SetCorrelationIDResolve(r)
    \/ \E r \in Reqs : SetCorrelationIDStore(r)
    \/ \E r \in Reqs : JSONMiddlewareWithConfig(r)
    \/ \E r \in Reqs : HandlerJSON(r)
    \/ \E r \in Reqs : HandlerExtensionJSON(r)
    \/ \E r \in Reqs : HandlerExtensionConvenience(r)
    \/ \E r \in Reqs : JSONRendererMiddleware(r)
    \/ \E r \in Reqs : HandlerRenderer(r)

SpecJSON == InitJSON /\ [][NextJSON]_vars

\* NumReqs requests in flight together through RequestScopedLoggerMiddleware,
\* with or without SetCorrelationID in front, each with its own
\* X-Correlation-ID, for every kind of factory.
InitScoped ==
    /\ \E factory \in Factories :
          router \in {<<UseRequestScopedLogger(factory)>>,
                      <<UseSetCorrelationID, UseRequestScopedLogger(factory)>>}
    /\ \E ids \in [1..NumReqs -> ConcIDs] :
          /\ \A r, q \in 1..NumReqs : r # q => ids[r] # ids[q]
          /\ ctx = [r \in 1..NumReqs |->
                      NewContext([k \in CtxKeys |-> NoVal],
                                 [h \in ReqHeaderNames |->
                                     IF h = "X-Correlation-Id" THEN ids[r] ELSE ""])]
    /\ Enter(1..NumReqs)

NextScoped ==
    \/ \E r \in Reqs : SetCorrelationIDResolve(r)
    \/ \E r \in Reqs : SetCorrelationIDStore(r)
    \/ \E r \in Reqs : RequestScopedLoggerRead(r)
    \/ \E r \in Reqs : RequestScopedLoggerStore(r)
    \/ \E r \in Reqs : HandlerGetLogger(r)

SpecScoped == InitScoped /\ [][NextScoped]_vars

\* One request through SetHeaders, StaticRequests or both, in either order, for
\* every config, exception list and matched route path; the handler answers
\* with c.JSON.
InitHeaders ==
    /\ \E config \in HeaderConfigs, e \in CallerExceptions :
          router \in {<<UseSetHeaders(config)>>, <<UseStaticRequests(config, e)>>,
                      <<UseSetHeaders(config), UseStaticRequests(config, e)>>,
                      <<UseStaticRequests(config, e), UseSetHeaders(config)>>}
    /\ \E p \in RoutePaths :
          ctx = [r \in {1} |->
                   [NewContext([k \in CtxKeys |-> NoVal], [h \in ReqHeaderNames |-> ""])
                       EXCEPT !.fullPath = p]]
    /\ Enter({1})

NextHeaders ==
    \/ \E r \in Reqs : SetHeadersMiddleware(r)
    \/ \E r \in Reqs : StaticRequestsMiddleware(r)
    \/ \E r \in Reqs : HandlerJSON(r)

SpecHeaders == InitHeaders /\ [][NextHeaders]_vars

\* NumReqs requests in flight together behind the JSON middleware, each handler
\* writing up to MaxOps times, JSON or not.
InitWrites ==
    /\ \E config \in WriteConfigs : router = <<UseJSONMiddleware(config)>>
    /\ ctx = [r \in 1..NumReqs |->
                NewContext([k \in CtxKeys |-> NoVal], [h \in ReqHeaderNames |-> ""])]
    /\ Enter(1..NumReqs)

NextWrites ==
    \/ \E r \in Reqs : JSONMiddlewareWithConfig(r)
    \/ \E r \in Reqs : HandlerWrite(r)

SpecWrites == InitWrites /\ [][NextWrites]_vars

\* One request behind one JSON middleware or two stacked ones, with or without
\* a request logger; the handler answers with c.JSON or through the render
\* service.
InitStacked ==
    /\ \E c1, c2 \in StackConfigs :
          router \in {<<UseJSONMiddleware(c1)>>,
                      <<UseJSONMiddleware(c1), UseJSONMiddleware(c2)>>}
    /\ \E v \in {NoVal, LoggerVal("request-logger")} :
          ctx = [r \in {1} |->
                   NewContext([k \in CtxKeys |-> IF k = REQUEST_LOGGER THEN v ELSE NoVal],
                              [h \in ReqHeaderNames |-> ""])]
    /\ Enter({1})

NextStacked ==
    \/ \E r \in Reqs : JSONMiddlewareWithConfig(r)
    \/ \E r \in Reqs : HandlerJSON(r)
    \/ \E r \in Reqs : HandlerRender(r)

SpecStacked == InitStacked /\ [][NextStacked]_vars

\* One request behind the JSON middleware, with or without a request logger,
\* whose handler writes JSON or text under either Content-Type, for every
\* outcome of the connection's Write and of json.Marshal.
InitLossless ==
    /\ \E config \in WriteConfigs : router = <<UseJSONMiddleware(config)>>
    /\ \E v \in {NoVal, LoggerVal("request-logger")}, writerFails, marshalFails \in BOOLEAN :
          ctx = [r \in {1} |->
                   [NewContext([k \in CtxKeys |-> IF k = REQUEST_LOGGER THEN v ELSE NoVal],
                               [h \in ReqHeaderNames |-> ""])
                       EXCEPT !.writerFails = writerFails, !.marshalFails = marshalFails]]
    /\ Enter({1})

NextLossless ==
    \/ \E r \in Reqs : JSONMiddlewareWithConfig(r)
    \/ \E r \in Reqs : HandlerWrite(r)
    \/ \E r \in Reqs : HandlerJSON(r)

SpecLossless == InitLossless /\ [][NextLossless]_vars

(***************************************************************************)
(* Properties                                                              *)
(***************************************************************************)
RECURSIVE FirstNonEmpty(_)
FirstNonEmpty(seq) ==
    IF seq = <<>> THEN ""
    ELSE IF Head(seq) # "" THEN Head(seq) ELSE FirstNonEmpty(Tail(seq))

\* The request r is between SetCorrelationID and its first downstream call.
JustSetCorrelationID(r) == last[r].op = "SetCorrelationID" /\ nops[r] = 0

\* C1: once SetCorrelationID has run and before anything downstream runs, the
\* context holds a non-empty string under "correlationid" and the response
\* headers X-Correlation-ID and correlationid both carry exactly that string,
\* whatever the context and the request headers held before.
C1_IdSetEverywhere ==
    \A r \in Reqs :
        JustSetCorrelationID(r) =>
            /\ ctx[r].keys[CORRELATION_ID_KEY].kind = "str"
            /\ GetString(ctx[r], CORRELATION_ID_KEY) # ""
            /\ RespHeader(ctx[r], "X-Correlation-ID") = GetString(ctx[r], CORRELATION_ID_KEY)
            /\ RespHeader(ctx[r], "correlationid") = GetString(ctx[r], CORRELATION_ID_KEY)

\* C1 witness: the middleware ran on a request with no usable ID at all (a
\* non-string context value, no header) and generated one.
C1_Witness ==
    \E r \in Reqs :
        /\ JustSetCorrelationID(r)
        /\ last[r].before.keys[CORRELATION_ID_KEY] = OtherVal
        /\ GetHeader(last[r].before, "X-Correlation-ID") = ""
        /\ GetString(ctx[r], CORRELATION_ID_KEY) \in UUIDs

\* C2: SetCorrelationID picks the ID by strict precedence: a non-empty string
\* already in the context wins, else a non-empty X-Correlation-ID request header
\* is taken unchanged, and a UUID is generated only when both are empty; a
\* request arriving with X-Correlation-ID: v (and no context value) gets
\* X-Correlation-ID: v on its response.
C2_Precedence ==
    \A r \in Reqs :
        JustSetCorrelationID(r) =>
            LET inCtx == GetString(last[r].before, CORRELATION_ID_KEY)
                inHdr == GetHeader(last[r].before, "X-Correlation-ID")
                id == GetString(ctx[r], CORRELATION_ID_KEY)
            IN  /\ inCtx # "" => id = inCtx
                /\ (inCtx = "" /\ inHdr # "") =>
                       (id = inHdr /\ RespHeader(ctx[r], "X-Correlation-ID") = inHdr)
                /\ (inCtx = "" /\ inHdr = "") <=> id \in UUIDs

\* C2 witness: context value and header both present and different.
C2_Witness ==
    \E r \in Reqs :
        /\ JustSetCorrelationID(r)
        /\ GetString(last[r].before, CORRELATION_ID_KEY) = "ctx-id"
        /\ GetHeader(last[r].before, "X-Correlation-ID") = "hdr-id"

\* C3: with requests running concurrently through SetCorrelationID, each with
\* its own X-Correlation-ID header, GetCorrelationID inside a request's handler
\* returns that request's header value and no other request's, under every
\* interleaving.
C3_OwnIdUnderInterleaving ==
    \A r \in Reqs :
        (last[r].op = "GetCorrelationID" /\ ~last[r].nilArg) =>
            /\ last[r].ret = GetHeader(ctx[r], "X-Correlation-ID")
            /\ \A q \in Reqs \ {r} : last[r].ret # GetHeader(ctx[q], "X-Correlation-ID")

\* C3 witness: two requests were in flight together and both handlers have read
\* their ID.
C3_Witness ==
    \E r, q \in Reqs :
        /\ r # q
        /\ last[r].op = "GetCorrelationID" /\ ~last[r].nilArg
        /\ last[q].op = "GetCorrelationID" /\ ~last[q].nilArg

\* C4: GetCorrelationID returns "unknown" for a nil context or when nothing is
\* found, and otherwise the first non-empty of the context value, the
\* X-Correlation-ID request header and the correlationid request header; it
\* never returns "" and leaves context and headers as they were.
C4_GetCorrelationID ==
    \A r \in Reqs :
        last[r].op = "GetCorrelationID" =>
            LET b == last[r].before
                first == FirstNonEmpty(<<GetString(b, CORRELATION_ID_KEY),
                                         GetHeader(b, "X-Correlation-ID"),
                                         GetHeader(b, "correlationid")>>)
            IN  /\ last[r].nilArg => last[r].ret = "unknown"
                /\ ~last[r].nilArg => last[r].ret = (IF first = "" THEN "unknown" ELSE first)
                /\ last[r].ret # ""
                /\ ctx[r] = b

\* C4 witness: only the third source, the correlationid request header, had an ID.
C4_Witness ==
    \E r \in Reqs :
        /\ last[r].op = "GetCorrelationID" /\ ~last[r].nilArg
        /\ GetString(last[r].before, CORRELATION_ID_KEY) = ""
        /\ GetHeader(last[r].before, "X-Correlation-ID") = ""
        /\ last[r].ret = "legacy-id"

\* C5: GetCorrelationIDOrGenerate never returns "unknown" or "".  When
\* GetCorrelationID finds nothing (returns "unknown") it generates a UUID and,
\* for a non-nil context, stores it in the context and in both response headers,
\* so that every later GetCorrelationID / GetCorrelationIDOrGenerate on the
\* request returns that ID; when GetCorrelationID finds an ID, that ID is
\* returned and context and headers stay as they were.
C5_OrGenerate ==
    \A r \in Reqs :
        /\ last[r].op = "GetCorrelationIDOrGenerate" =>
              LET b == last[r].before
                  found == IF last[r].nilArg THEN "unknown" ELSE GetCorrelationID(b)
              IN  /\ last[r].ret \notin {"unknown", ""}
                  /\ found = "unknown" =>
                        /\ last[r].ret \in UUIDs
                        /\ ~last[r].nilArg =>
                              /\ ctx[r].keys[CORRELATION_ID_KEY] = StrVal(last[r].ret)
                              /\ RespHeader(ctx[r], "X-Correlation-ID") = last[r].ret
                              /\ RespHeader(ctx[r], "correlationid") = last[r].ret
                        /\ last[r].nilArg => ctx[r] = b
                  /\ found # "unknown" => (last[r].ret = found /\ ctx[r] = b)
        /\ (gen[r] # "" /\ ~last[r].nilArg
              /\ last[r].op \in {"GetCorrelationID", "GetCorrelationIDOrGenerate"}) =>
              last[r].ret = gen[r]

\* C5 witness: an ID was generated for a request that had none, and a later
\* GetCorrelationID on the same request returned it.
C5_Witness ==
    \E r \in Reqs :
        /\ gen[r] \in UUIDs
        /\ nops[r] >= 2
        /\ last[r].op = "GetCorrelationID" /\ ~last[r].nilArg
        /\ last[r].ret = gen[r]
        /\ GetHeader(ctx[r], "X-Correlation-ID") = ""


\* The request r has just rendered through the render service with method m.
Rendered(r, m) == last[r].op = "Render" /\ last[r].method = m

\* The envelope on the wire, as a JSON object (JNull when the body is no JSON).
WireJSON(r) == IF ctx[r].out.kind = "json" THEN ctx[r].out.val ELSE JNull

\* A string field of a JSON object decoded into a Go struct: "" when absent.
StringField(e, k) == IF HasKey(e, k) THEN e.v[k] ELSE JStr("")

\* A field of a JSON object decoded into interface{}: nil when absent.
ValueField(e, k) == IF HasKey(e, k) THEN e.v[k] ELSE JNull

\* C6: RenderService(ctx).WithConfig(cfg).AsResult(code, payload) writes one
\* JSON envelope with status = code, result = payload, correlationid = what
\* GetCorrelationID(ctx) returns, name = cfg.Name (or "omnis-service" when cfg is
\* nil or Name is empty), scope = cfg.Scope (or "DEV" by the same rule) and a
\* version made of cfg.Version (or "1.0.0") followed by "+build." and the build
\* information; version, name and result are keys of every such envelope.
C6_AsResultEnvelope ==
    \A r \in Reqs :
        Rendered(r, "AsResult") =>
            LET cfg == last[r].config
                e == WireJSON(r)
                base == IF ~cfg.nil /\ cfg.Version # "" THEN cfg.Version ELSE "1.0.0"
            IN  /\ ctx[r].nwrites = 1
                /\ IsObject(e)
                /\ {"version", "name", "result"} \subseteq DOMAIN e.v
                /\ e.v["status"] = JNum(last[r].code)
                /\ e.v["result"] = last[r].payload.val
                /\ e.v["correlationid"] = JStr(GetCorrelationID(last[r].before))
                /\ e.v["name"] = JStr(IF ~cfg.nil /\ cfg.Name # "" THEN cfg.Name
                                      ELSE "omnis-service")
                /\ e.v["scope"] = JStr(IF ~cfg.nil /\ cfg.Scope # "" THEN cfg.Scope ELSE "DEV")
                /\ \E g \in GoVersions, t \in BuildTimes :
                      e.v["version"] = JStr(base \o "+build." \o g \o "." \o t)

\* C6 witness: AsResult with a config that names the service but gives no
\* version, on a request whose ID SetCorrelationID took from the header, with a
\* nil payload.
C6_Witness ==
    \E r \in Reqs :
        /\ Rendered(r, "AsResult")
        /\ last[r].config = ServiceConfig("", "", "svc", "TEST")
        /\ last[r].payload = NilBody
        /\ HasKey(WireJSON(r), "correlationid")
        /\ WireJSON(r).v["correlationid"] = JStr("hdr-id")
        /\ RespHeader(ctx[r], "X-Correlation-ID") = "hdr-id"

\* C7: AsError(code, err) and AsResultWithError(code, payload, err) put the
\* error's message and a stack trace in the envelope if and only if err is
\* non-nil and the effective scope (cfg.Scope, "DEV" when none is configured) is
\* exactly "DEV"; in every other case the envelope has neither an error nor a
\* stack key.  Status, and result for AsResultWithError, are written as AsResult
\* writes them.  (The message travels under "error", which encoding/json leaves
\* out when the message is the empty string.)
C7_ErrorAndStackInDevOnly ==
    \A r \in Reqs :
        (Rendered(r, "AsError") \/ Rendered(r, "AsResultWithError")) =>
            LET cfg == last[r].config
                e == WireJSON(r)
                scope == IF ~cfg.nil /\ cfg.Scope # "" THEN cfg.Scope ELSE "DEV"
                shown == ~last[r].err.nil /\ scope = "DEV"
            IN  /\ IsObject(e)
                /\ HasKey(e, "stack") <=> shown
                /\ shown => StringField(e, "error") = JStr(last[r].err.msg)
                /\ ~shown => ~HasKey(e, "error")
                /\ e.v["status"] = JNum(last[r].code)
                /\ e.v["result"] = (IF Rendered(r, "AsResultWithError")
                                    THEN last[r].payload.val ELSE JNull)

\* C7 witness: the same error rendered in production scope: no error, no stack.
C7_Witness ==
    \E r \in Reqs :
        /\ Rendered(r, "AsError")
        /\ last[r].err = ErrorOf("boom")
        /\ last[r].config = ServiceConfig("2.1.0", "b7", "svc", "PRD")
        /\ ~HasKey(WireJSON(r), "stack")
        /\ ~HasKey(WireJSON(r), "error")

\* The request r has just written a JSON body through c.JSON, directly or
\* through the gin extension.
WroteJSON(r) == last[r].op = "JSON"

\* The config of the interceptor in front of r's writer.
InstalledConfig(r) == ctx[r].writers[Len(ctx[r].writers)].config

\* A logger is available to the interceptor of r: one stored under the
\* REQUEST_LOGGER context key, or the DefaultLogger of the middleware config.
LoggerAvailable(r) ==
    \/ ctx[r].keys[REQUEST_LOGGER].kind = "logger"
    \/ ~InstalledConfig(r).nil /\ InstalledConfig(r).DefaultLogger # NoLogger

\* C8: with the interceptor installed and no logger available for the request
\* (none under the REQUEST_LOGGER context key, no DefaultLogger in the middleware
\* config), every c.JSON body reaches the underlying writer byte for byte as the
\* handler's encoder produced it: no envelope, the handler's fields on top.
C8_NoLoggerPassThrough ==
    \A r \in Reqs :
        (WroteJSON(r) /\ Len(ctx[r].writers) > 0 /\ ~LoggerAvailable(r)) =>
            ctx[r].out = last[r].data

\* C8 witness: a plain c.JSON of a message through JSONMiddlewareWithDefaults.
C8_Witness ==
    \E r \in Reqs :
        /\ WroteJSON(r) /\ last[r].via = "c.JSON"
        /\ Len(ctx[r].writers) > 0
        /\ InstalledConfig(r) = JSONMiddlewareWithDefaults
        /\ ~LoggerAvailable(r)
        /\ last[r].obj = MessageBody
        /\ ctx[r].committed

\* The body c.JSON(code, obj) produced is one the interceptor wraps: it is not
\* an envelope already and has no top-level "error" key.  (It always parses.)
PlainBody(obj) == ~AlreadyWrapped(obj.val) /\ ~HasKey(obj.val, "error")

\* C9: with the interceptor installed and a logger available (request logger or
\* DefaultLogger), the first c.JSON(code, obj) of a response whose body parses,
\* is not an envelope already and has no top-level "error" key reaches the
\* writer as an envelope: result is the parsed body, status is the response's
\* status code, and version, build, name and scope are those of the
\* ServiceConfig (version "1.0.0" and the others empty without a ServiceConfig).
C9_LoggerWraps ==
    \A r \in Reqs :
        (/\ WroteJSON(r) /\ last[r].fresh
         /\ Len(ctx[r].writers) > 0
         /\ LoggerAvailable(r)
         /\ PlainBody(last[r].obj)) =>
            LET e == WireJSON(r)
                config == InstalledConfig(r)
                given == ~config.nil /\ ~config.ServiceConfig.nil
                sc == config.ServiceConfig
            IN  /\ IsObject(e)
                /\ ValueField(e, "result") = last[r].obj.val
                /\ HasKey(e, "status") /\ e.v["status"] = JNum(ctx[r].status)
                /\ ctx[r].status = last[r].code
                /\ StringField(e, "version") = JStr(IF given THEN sc.Version ELSE "1.0.0")
                /\ StringField(e, "build") = JStr(IF given THEN sc.Build ELSE "")
                /\ StringField(e, "name") = JStr(IF given THEN sc.Name ELSE "")
                /\ StringField(e, "scope") = JStr(IF given THEN sc.Scope ELSE "")

\* C9 witness: a 400 response wrapped on the strength of the DefaultLogger
\* alone, by a middleware with a full ServiceConfig.
C9_Witness ==
    \E r \in Reqs :
        /\ WroteJSON(r) /\ last[r].fresh
        /\ Len(ctx[r].writers) > 0
        /\ ctx[r].keys[REQUEST_LOGGER] = NoVal
        /\ InstalledConfig(r) =
              RendererConfig(ServiceConfig("2.1.0", "b7", "svc", "PRD"), "default-logger", FALSE)
        /\ last[r].obj = MessageBody
        /\ last[r].code = 400
        /\ HasKey(WireJSON(r), "result")
        /\ WireJSON(r).v["result"] = MessageBody.val

\* C10: a logger attached with C(c).WithLogger(log) before .JSON(code, obj) is
\* the logger the interceptor finds: with JSONMiddlewareWithDefaults (no default
\* logger) the response is wrapped in an envelope and the handler's data is
\* under result.
C10_FluentLoggerWraps ==
    \A r \in Reqs :
        (/\ WroteJSON(r) /\ last[r].fresh
         /\ last[r].via = "C(c).JSON" /\ last[r].logger # NoLogger
         /\ Len(ctx[r].writers) > 0
         /\ InstalledConfig(r) = JSONMiddlewareWithDefaults
         /\ PlainBody(last[r].obj)) =>
            /\ HasKey(WireJSON(r), "result")
            /\ WireJSON(r).v["result"] = last[r].obj.val

\* What the code does with the fluent logger instead: ContextExtension.JSON
\* stores it under "request_logger", the interceptor looks under REQUEST_LOGGER,
\* so with no other logger the body goes out as the handler wrote it.
C10_FluentLoggerIgnored ==
    \A r \in Reqs :
        (/\ WroteJSON(r)
         /\ last[r].via = "C(c).JSON" /\ last[r].logger # NoLogger
         /\ Len(ctx[r].writers) > 0
         /\ ~LoggerAvailable(r)) =>
            /\ ctx[r].keys["request_logger"] = LoggerVal(last[r].logger)
            /\ ctx[r].out = last[r].data

\* C10 witness: the fluent call of the repository's test, through
\* JSONMiddlewareWithDefaults, with nothing stored under REQUEST_LOGGER.
C10_Witness ==
    \E r \in Reqs :
        /\ WroteJSON(r) /\ last[r].fresh
        /\ last[r].via = "C(c).JSON" /\ last[r].logger = "handler-logger"
        /\ Len(ctx[r].writers) > 0
        /\ InstalledConfig(r) = JSONMiddlewareWithDefaults
        /\ ctx[r].keys[REQUEST_LOGGER] = NoVal
        /\ last[r].obj = MessageBody /\ last[r].code = 200

\* SetCorrelationID ran before the JSON middleware in the request r.
CorrelatedThenIntercepted(r) ==
    /\ Len(router) >= 2
    /\ router[1].name = "SetCorrelationID"
    /\ router[2].name = "JSONMiddleware"
    /\ Len(ctx[r].writers) > 0

\* C11: when SetCorrelationID ran before the JSON middleware in the same
\* request, the envelope the interceptor builds carries the request's
\* correlation ID in correlationid, equal to the request's X-Correlation-ID
\* response header.
C11_EnvelopeCarriesCorrelationID ==
    \A r \in Reqs :
        (/\ WroteJSON(r) /\ last[r].fresh
         /\ CorrelatedThenIntercepted(r)
         /\ LoggerAvailable(r)
         /\ ~AlreadyWrapped(last[r].obj.val)) =>
            /\ RespHeader(ctx[r], "X-Correlation-ID") # ""
            /\ StringField(WireJSON(r), "correlationid") =
                  JStr(RespHeader(ctx[r], "X-Correlation-ID"))

\* What the code does instead: SetCorrelationID stores the ID under
\* CORRELATION_ID_KEY ("correlationid"), the interceptor looks under
\* "correlation-id", a key nothing in the package writes, so the envelope it
\* builds has no correlationid although the response header carries the ID.
C11_EnvelopeWithoutCorrelationID ==
    \A r \in Reqs :
        (/\ WroteJSON(r) /\ last[r].fresh
         /\ CorrelatedThenIntercepted(r)
         /\ LoggerAvailable(r)
         /\ ~AlreadyWrapped(last[r].obj.val)) =>
            /\ GetString(ctx[r], CORRELATION_ID_KEY) = RespHeader(ctx[r], "X-Correlation-ID")
            /\ RespHeader(ctx[r], "X-Correlation-ID") # ""
            /\ ctx[r].keys["correlation-id"] = NoVal
            /\ HasKey(WireJSON(r), "result")
            /\ ~HasKey(WireJSON(r), "correlationid")

\* C11 witness: SetCorrelationID took the ID from the request header, the JSON
\* middleware with a default logger wrapped the handler's message.
C11_Witness ==
    \E r \in Reqs :
        /\ WroteJSON(r) /\ last[r].fresh
        /\ CorrelatedThenIntercepted(r)
        /\ InstalledConfig(r) = RendererConfig(NilConfig, "default-logger", FALSE)
        /\ last[r].obj = MessageBody
        /\ RespHeader(ctx[r], "X-Correlation-ID") = "hdr-id"
        /\ HasKey(WireJSON(r), "result")

\* The request r has just rendered through the JSONRenderer.
UsedRenderer(r) == last[r].op = "Renderer"

\* The handler of r has just called the convenience method m, of omnis.C(c) or
\* of omnis.JSON(c).
CalledConvenience(r, m) ==
    \/ WroteJSON(r) /\ last[r].via = "C(c)." \o m
    \/ UsedRenderer(r) /\ last[r].method = m

\* The status each convenience method is documented to send.
DocumentedStatus(m) ==
    CASE m = "Success" -> 200
      [] m = "Created" -> 201
      [] m = "BadRequest" -> 400
      [] m = "Unauthorized" -> 401
      [] m = "NotFound" -> 404
      [] m = "InternalServerError" -> 500

\* C12: the HTTP status of a response equals the code its handler passed,
\* whether the interceptor passes the body through, re-serialises it or wraps
\* it, and the status field of a wrapped envelope is that same code; Success,
\* Created, BadRequest, Unauthorized, NotFound and InternalServerError send 200,
\* 201, 400, 401, 404 and 500.  (Stated for the write that opens the response:
\* once the header is sent, the status is fixed.)
C12_StatusIsHandlersCode ==
    \A r \in Reqs :
        ((WroteJSON(r) \/ UsedRenderer(r)) /\ ctx[r].nwrites = 1) =>
            /\ ctx[r].status = last[r].code
            /\ (/\ WroteJSON(r) /\ Len(ctx[r].writers) > 0 /\ LoggerAvailable(r)
                /\ ~AlreadyWrapped(last[r].obj.val)) =>
                   (HasKey(WireJSON(r), "status")
                      /\ WireJSON(r).v["status"] = JNum(last[r].code))
            /\ (UsedRenderer(r) /\ last[r].target # "Simple") =>
                   (HasKey(WireJSON(r), "status")
                      /\ WireJSON(r).v["status"] = JNum(last[r].code))
            /\ \A m \in ConvenienceMethods :
                   CalledConvenience(r, m) => ctx[r].status = DocumentedStatus(m)

\* C12 witness: C(c).BadRequest wrapped by the interceptor on the strength of
\* the default logger: 400 on the wire and in the envelope.
C12_Witness ==
    \E r \in Reqs :
        /\ CalledConvenience(r, "BadRequest") /\ WroteJSON(r)
        /\ ctx[r].nwrites = 1
        /\ Len(ctx[r].writers) > 0
        /\ ctx[r].keys[REQUEST_LOGGER] = NoVal
        /\ LoggerAvailable(r)
        /\ WireJSON(r).v["status"] = JNum(400)
        /\ ctx[r].status = 400

\* The interceptor of r has just rewritten the body: it found a logger and
\* either wrapped the body or re-serialised an envelope.
Rewrote(r) ==
    /\ WroteJSON(r) /\ last[r].fresh
    /\ Len(ctx[r].writers) > 0
    /\ LoggerAvailable(r)

\* Development mode as documented: no ServiceConfig, or a Scope of "", "DEV" or
\* "DEVELOPMENT".
DocumentedDevelopmentMode(config) ==
    \/ config.nil
    \/ config.ServiceConfig.nil
    \/ config.ServiceConfig.Scope \in {"", "DEV", "DEVELOPMENT"}

\* C13: whenever the interceptor rewrites a JSON body, the output is indented
\* if and only if EnablePrettyPrint is true or the request is in development
\* mode (no ServiceConfig, or a Scope of "", "DEV" or "DEVELOPMENT"); for any
\* other scope with EnablePrettyPrint false it is compact.
C13_IndentedIffPrettyOrDevelopment ==
    \A r \in Reqs :
        Rewrote(r) =>
            LET config == InstalledConfig(r)
                indented == ctx[r].out.style = "indent2"
            IN  /\ ctx[r].out.style \in {"indent2", "compact"}
                /\ indented <=> (config.EnablePrettyPrint \/ DocumentedDevelopmentMode(config))

\* What the code does: the rule of C13 is applied only under a non-nil
\* *JSONRendererConfig; with JSONMiddlewareWithConfig(nil) every rewritten body
\* is compact, although isDevelopmentMode answers true for a nil config.
C13_CompactUnderNilConfig ==
    \A r \in Reqs :
        Rewrote(r) =>
            LET config == InstalledConfig(r)
                indented == ctx[r].out.style = "indent2"
            IN  /\ ctx[r].out.style \in {"indent2", "compact"}
                /\ ~config.nil =>
                      (indented <=> (config.EnablePrettyPrint \/ DocumentedDevelopmentMode(config)))
                /\ config.nil => (~indented /\ IsDevelopmentMode(config))

\* C13 witness: JSONMiddlewareWithConfig(nil), a logger stored under
\* REQUEST_LOGGER by an earlier middleware, and a handler's message wrapped.
C13_Witness ==
    \E r \in Reqs :
        /\ Rewrote(r)
        /\ InstalledConfig(r) = NilRendererConfig
        /\ ctx[r].keys[REQUEST_LOGGER] = LoggerVal("request-logger")
        /\ last[r].obj = MessageBody
        /\ HasKey(WireJSON(r), "result")

\* The scope, compared case-insensitively, is "DEV".
IsDEV(scope) == scope \in {"DEV", "dev", "Dev", "dEv", "deV", "DEv", "dEV", "DeV"}

\* C14: the render service decides pretty-print versus compact from the scope
\* alone: the envelope is indented if and only if the effective scope (the
\* config's Scope, "DEV" when there is no config or its Scope is empty),
\* compared case-insensitively, is "DEV", and compact for every other scope; in
\* both cases the Content-Type header is application/json.
C14_IndentedIffScopeDEV ==
    \A r \in Reqs :
        last[r].op = "Render" =>
            LET cfg == last[r].config
                scope == IF ~cfg.nil /\ cfg.Scope # "" THEN cfg.Scope ELSE "DEV"
            IN  /\ ctx[r].out.kind = "json"
                /\ ctx[r].out.style = (IF IsDEV(scope) THEN "indent4" ELSE "compact")
                /\ RespHeader(ctx[r], "Content-Type") = "application/json"

\* C14 witness: a lower-case "dev" scope, indented all the same.
C14_Witness ==
    \E r \in Reqs :
        /\ last[r].op = "Render"
        /\ last[r].config = ServiceConfig("2.1.0", "b7", "svc", "dev")
        /\ ctx[r].out.style = "indent4"
        /\ WireJSON(r).v["scope"] = JStr("dev")

\* The handler of r has just called omnis.JSON(c).Success(data), with no
\* WithLogger and no WithConfig, behind a JSONMiddlewareWithConfig that was
\* given a DefaultLogger and a ServiceConfig.
SuccessOnMiddlewareDefaults(r) ==
    /\ UsedRenderer(r) /\ last[r].method = "Success"
    /\ last[r].stored
    /\ last[r].logger = NoLogger /\ ~last[r].withConfig
    /\ last[r].renderer.defaultLogger # NoLogger
    /\ ~last[r].renderer.config.nil

\* The log map of an envelope whose lines were retrieved from logger.
LogLinesFrom(r, logger) ==
    StringMapJSON(MemoryLogs([logger |-> logger, config |-> last[r].renderer.config],
                             GetCorrelationID(last[r].before), last[r].env.logs).log)

\* The name, scope and version of the envelope are those of the ServiceConfig sc.
MetadataFrom(r, sc) ==
    LET e == WireJSON(r)
    IN  /\ IsObject(e)
        /\ e.v["name"] = JStr(IF sc.Name # "" THEN sc.Name ELSE "omnis-service")
        /\ e.v["scope"] = JStr(IF sc.Scope # "" THEN sc.Scope ELSE "DEV")
        /\ \E g \in GoVersions, t \in BuildTimes :
              e.v["version"] = JStr((IF sc.Version # "" THEN sc.Version ELSE "1.0.0")
                                       \o "+build." \o g \o "." \o t)

\* C15: behind JSONMiddlewareWithConfig with a DefaultLogger and a
\* ServiceConfig, omnis.JSON(c).Success(data) without WithLogger renders its
\* envelope with the middleware's default logger (the log lines are retrieved
\* from it) and the middleware's config (name, version and scope).
C15_SuccessUsesMiddlewareDefaults ==
    \A r \in Reqs :
        SuccessOnMiddlewareDefaults(r) =>
            /\ MetadataFrom(r, last[r].renderer.config)
            /\ WireJSON(r).v["log"] = LogLinesFrom(r, last[r].renderer.defaultLogger)

\* What the code does: the config of the middleware is used, the default
\* logger is not.  Response hands the render service j.logger only, which is
\* nil without WithLogger, and the render service then retrieves the log lines
\* from arbor.GetLogger().
C15_SuccessIgnoresDefaultLogger ==
    \A r \in Reqs :
        SuccessOnMiddlewareDefaults(r) =>
            /\ MetadataFrom(r, last[r].renderer.config)
            /\ WireJSON(r).v["log"] = LogLinesFrom(r, GlobalLogger)

\* C15 witness: the advanced setup of the usage example (SetCorrelationID, then
\* the middleware with a DEV config, a default logger and pretty printing), the
\* handler calling Success, and log lines on record for the request.
C15_Witness ==
    \E r \in Reqs :
        /\ SuccessOnMiddlewareDefaults(r)
        /\ router = <<UseSetCorrelationID,
                      UseJSONRenderer(RendererConfig(ServiceConfig("2.1.0", "b7", "svc", "DEV"),
                                                     "default-logger", TRUE))>>
        /\ last[r].env.logs = "entries"
        /\ WireJSON(r).v["name"] = JStr("svc")
        /\ WireJSON(r).v["correlationid"] = JStr("hdr-id")

\* The handler of r has just read its logger from the context.
ReadLogger(r) == last[r].op = "GetLogger"

\* The createLogger the router's RequestScopedLoggerMiddleware was given.
ScopedFactory == router[Len(router)].factory

\* C16: RequestScopedLoggerMiddleware, given a factory that returns a fresh
\* logger on each call, stores under "logger" and "arbor" one and the same
\* logger, created for that request alone and configured with that request's
\* correlation ID; under every interleaving no handler observes a logger
\* instance or a correlation ID of another request; with a nil factory no key
\* is set and the next handler still runs.
C16_ScopedLoggerPerRequest ==
    \A r \in Reqs :
        ReadLogger(r) =>
            /\ ScopedFactory # "nil" =>
                  /\ last[r].logger.kind = "logger"
                  /\ last[r].arbor = last[r].logger
                  /\ last[r].logger.cid = GetCorrelationID(ctx[r])
                  /\ \A q \in Reqs \ {r} :
                        /\ ctx[q].keys["logger"].kind = "logger" =>
                              ctx[q].keys["logger"].s # last[r].logger.s
                        /\ last[r].logger.cid # GetCorrelationID(ctx[q])
            /\ ScopedFactory = "nil" =>
                  (last[r].logger = NoVal /\ last[r].arbor = NoVal)

\* What the code does: one logger per request under both keys and no logger or
\* correlation ID of another request, under every interleaving; but the logger
\* is configured only when the context already holds a correlation ID under
\* CORRELATION_ID_KEY and the logger has a method with the exact signature
\* WithCorrelationId(string) interface{}; otherwise it is stored as created.
C16_ScopedLoggerIsolated ==
    \A r \in Reqs :
        ReadLogger(r) =>
            /\ ScopedFactory # "nil" =>
                  /\ last[r].logger.kind = "logger"
                  /\ last[r].arbor = last[r].logger
                  /\ last[r].logger.cid =
                        (IF ScopedFactory = "configurable"
                         THEN GetString(ctx[r], CORRELATION_ID_KEY) ELSE "")
                  /\ \A q \in Reqs \ {r} :
                        /\ ctx[q].keys["logger"].kind = "logger" =>
                              ctx[q].keys["logger"].s # last[r].logger.s
                        /\ last[r].logger.cid # GetCorrelationID(ctx[q])
            /\ ScopedFactory = "nil" =>
                  (last[r].logger = NoVal /\ last[r].arbor = NoVal)

\* C16 witness: the documented setup, SetCorrelationID in front and a factory of
\* arbor loggers, two requests in flight, both handlers holding their logger.
C16_Witness ==
    \E r, q \in Reqs :
        /\ r # q
        /\ router = <<UseSetCorrelationID, UseRequestScopedLogger("arbor")>>
        /\ ReadLogger(r) /\ ReadLogger(q)
        /\ last[r].logger.kind = "logger" /\ last[q].logger.kind = "logger"
        /\ GetString(ctx[r], CORRELATION_ID_KEY) = "req-a"

\* The renderer omnis.JSON(c) handed to the handler of r, before any WithLogger
\* or WithConfig of the handler: the stored one, or a new one.
DocumentedRenderer(r) ==
    IF last[r].before.keys["json_renderer"].kind = "renderer"
    THEN last[r].before.keys["json_renderer"].renderer
    ELSE NewJSONRenderer

\* C17: omnis.JSON(c) works with or without the middleware: it returns the
\* renderer stored under "json_renderer" when JSONMiddleware ran in the chain
\* and a new renderer otherwise; in both cases Simple(code, data) writes data
\* unwrapped, with the status code.
C17_JSONWithOrWithoutMiddleware ==
    \A r \in Reqs :
        UsedRenderer(r) =>
            LET base == DocumentedRenderer(r)
                j == last[r].renderer
            IN  /\ j.defaultLogger = base.defaultLogger
                /\ j.enablePretty = base.enablePretty
                /\ ~last[r].withConfig => j.config = base.config
                /\ last[r].logger = NoLogger => j.logger = base.logger
                /\ last[r].target = "Simple" =>
                      /\ ctx[r].committed
                      /\ ctx[r].status = last[r].code
                      /\ ctx[r].out = Marshal(last[r].payload,
                                              IF j.enablePretty \/ IsDevelopmentScope(j)
                                              THEN "indent4" ELSE "compact")
                      /\ WireJSON(r) = last[r].payload.val

\* C17 witness: Simple called on the renderer the middleware stored, which
\* carries the middleware's default logger.
C17_Witness ==
    \E r \in Reqs :
        /\ UsedRenderer(r)
        /\ last[r].target = "Simple"
        /\ last[r].stored
        /\ last[r].renderer.defaultLogger # NoLogger
        /\ last[r].payload = MessageBody
        /\ ctx[r].status = last[r].code

\* The middleware named name has just handed the request r on.
JustRan(r, name) ==
    /\ last[r].op = name
    /\ idx[r] > 1
    /\ router[idx[r] - 1].name = name

\* The documented exception list: the four defaults and the caller's list.
DocumentedExceptions(e) ==
    {"static/", "fav.ico", "favicon.ico", ".ico"} \cup {e[i] : i \in 1..Len(e)}

\* The documented scope: "DEV" when the config is nil or its Scope is empty.
DocumentedStaticScope(config) ==
    IF config.nil \/ config.Scope = "" THEN "DEV" ELSE config.Scope

\* C18: StaticRequests sets an Expires response header exactly when the matched
\* route path is non-empty, is in the merged exception list (the four defaults
\* plus the caller's list) and the scope is "DEV" (the default when the config
\* is nil or its Scope is empty); in every case the next handler is called and
\* nothing else of the response changes.
C18_ExpiresForStaticInDEV ==
    \A r \in Reqs :
        JustRan(r, "StaticRequests") =>
            LET mw == router[idx[r] - 1]
                b == last[r].before
            IN  /\ RespHeader(ctx[r], "Expires") # ""
                      <=> /\ b.fullPath # ""
                          /\ b.fullPath \in DocumentedExceptions(mw.e)
                          /\ DocumentedStaticScope(mw.config) = "DEV"
                /\ RespHeader(b, "Expires") = ""
                /\ ctx[r] = [b EXCEPT !.resp["Expires"] = ctx[r].resp["Expires"]]
                /\ pc[r] = AfterNext(idx[r] - 1)

\* C18 witness: a route path of the caller's own list, no config, and the
\* Expires header of a minute ago on the response.
C18_Witness ==
    \E r \in Reqs, now \in Clock :
        /\ JustRan(r, "StaticRequests")
        /\ router[idx[r] - 1].config = NilConfig
        /\ router[idx[r] - 1].e = <<"assets/", "favicon.ico">>
        /\ ctx[r].fullPath = "assets/"
        /\ RespHeader(ctx[r], "Expires") = ExpiresValue(now)

\* C19: SetHeaders(config) sets x-t3b-app to "app:" + name and x-t3b-version to
\* "version:" + version on the response, name and version taken from the
\* config and falling back, each on its own, to "omnis-service" and "1.0.0"
\* when the config is nil or the field is empty; it then calls the next
\* handler, and the headers stay on the response from there on.
C19_ServiceHeaders ==
    \A r \in Reqs :
        /\ \A i \in 1..Len(router) :
              (i < idx[r] /\ router[i].name = "SetHeaders") =>
                  LET config == router[i].config
                      name == IF config.nil \/ config.Name = ""
                              THEN "omnis-service" ELSE config.Name
                      version == IF config.nil \/ config.Version = ""
                                 THEN "1.0.0" ELSE config.Version
                  IN  /\ RespHeader(ctx[r], "x-t3b-app") = "app:" \o name
                      /\ RespHeader(ctx[r], "x-t3b-version") = "version:" \o version
        /\ JustRan(r, "SetHeaders") => pc[r] = AfterNext(idx[r] - 1)

\* C19 witness: a config with a version and no name, and the handler's answer
\* carrying the default name next to the config's version.
C19_Witness ==
    \E r \in Reqs :
        /\ router = <<UseSetHeaders(ServiceConfig("2.1.0", "b7", "", "DEV"))>>
        /\ pc[r] = "handler"
        /\ ctx[r].committed
        /\ RespHeader(ctx[r], "x-t3b-app") = "app:omnis-service"
        /\ RespHeader(ctx[r], "x-t3b-version") = "version:2.1.0"

\* The handler of r makes a Write in this step.
Writes(r) == nops'[r] = nops[r] + 1 /\ last'[r].op = "Write"

\* The written flag of the interceptor of request r (FALSE before the
\* middleware installed it).
WrittenFlag(c) == Len(c.writers) > 0 /\ c.writers[1].written

C20_Step ==
    \A r \in Reqs :
        /\ WrittenFlag(ctx[r]) => WrittenFlag(ctx'[r])
        /\ ctx'[r] # ctx[r] => \A q \in Reqs \ {r} : ctx'[q] = ctx[q]
        /\ (Writes(r) /\ Len(ctx[r].writers) > 0) =>
              IF WrittenFlag(ctx[r])
              THEN ctx'[r].out = last'[r].data
              ELSE IF ~ContainsApplicationJSON(last'[r].contentType)
                   THEN ctx'[r].out = last'[r].data /\ ~WrittenFlag(ctx'[r])
              ELSE WrittenFlag(ctx'[r])

\* C20: per request the interceptor transforms at most one Write: the first
\* Write made while the Content-Type contains application/json sets the
\* written flag, every later Write of that request reaches the underlying
\* writer unchanged, and an earlier Write with a non-JSON Content-Type is passed
\* through without setting the flag; the flag never goes back to false and a
\* step of one request leaves the flag of every other request alone.
C20_TransformsAtMostOneWrite == [][C20_Step]_vars

\* C20 witness: one request whose second JSON Write went out unchanged although
\* the middleware's logger would have wrapped it, next to a request that has
\* written text and whose flag is still unset.
C20_Witness ==
    \E r, q \in Reqs :
        /\ r # q
        /\ ~router[1].config.nil
        /\ last[r].op = "Write"
        /\ WrittenFlag(last[r].before)
        /\ ContainsApplicationJSON(last[r].contentType)
        /\ last[r].data = Marshal(MessageBody, "compact")
        /\ ctx[r].out = last[r].data
        /\ ctx[r].nwrites = 2
        /\ last[q].op = "Write"
        /\ ctx[q].out = TextBytes
        /\ ~WrittenFlag(ctx[q])

\* A JSON value that is an envelope as the render service or the interceptor
\* writes it: an object with a numeric status and a result.
IsEnvelope(v) == HasKey(v, "status") /\ HasKey(v, "result") /\ v.v["status"].t = "num"

\* An envelope whose result is an envelope again.
NestedEnvelope(v) == IsEnvelope(v) /\ IsEnvelope(v.v["result"])

\* C21: an already-wrapped body is never wrapped a second time: envelopes of
\* the render service and envelopes of the interceptor itself, for every
\* ServiceConfig or none and also behind two stacked JSON middlewares, are only
\* re-serialised; no response carries an envelope inside the result of another.
C21_NeverWrappedTwice ==
    \A r \in Reqs :
        (ctx[r].committed /\ ctx[r].out.kind = "json") => ~NestedEnvelope(ctx[r].out.val)

\* What the code does: an envelope ends up inside another only behind stacked
\* interceptors, when the interceptor nearest the handler wrote an envelope
\* whose name or version is empty and therefore left out of the JSON
\* (omitempty); envelopes of the render service are never nested.
C21_NestedWhenNameOrVersionOmitted ==
    \A r \in Reqs :
        (ctx[r].committed /\ ctx[r].out.kind = "json" /\ NestedEnvelope(ctx[r].out.val)) =>
            /\ last[r].op = "JSON"
            /\ Len(ctx[r].writers) = 2
            /\ LET config == ctx[r].writers[2].config
               IN  \/ config.nil
                   \/ config.ServiceConfig.nil
                   \/ config.ServiceConfig.Name = ""
                   \/ config.ServiceConfig.Version = ""

\* C21 witness: JSONMiddlewareWithDefaults() used twice, a request logger in
\* the context, and c.JSON of a plain body as the first write.
C21_Witness ==
    \E r \in Reqs :
        /\ router = <<UseJSONMiddleware(JSONMiddlewareWithDefaults),
                      UseJSONMiddleware(JSONMiddlewareWithDefaults)>>
        /\ ctx[r].keys[REQUEST_LOGGER].kind = "logger"
        /\ last[r].op = "JSON"
        /\ last[r].obj = MessageBody
        /\ last[r].fresh
        /\ ctx[r].nwrites = 1
        /\ IsEnvelope(ctx[r].out.val)

\* The interceptor of r has just wrapped the body of the first write.
Wrapped(r) ==
    /\ WroteJSON(r) /\ last[r].fresh
    /\ Len(ctx[r].writers) = 1
    /\ LoggerAvailable(r)
    /\ ~AlreadyWrapped(last[r].obj.val)

\* The top-level keys of a JSON value (none unless it is an object).
KeysOf(v) == IF IsObject(v) THEN DOMAIN v.v ELSE {}

\* C22: when the interceptor wraps a JSON object with a top-level "error" key,
\* the envelope's error field is the string form of that key's value, result
\* is null and the body's other fields are not kept; when the body has no such
\* key, result is the whole body and the envelope has no error field.
C22_ErrorKeyMovesToErrorField ==
    \A r \in Reqs :
        Wrapped(r) =>
            LET body == last[r].obj.val
                e == WireJSON(r)
            IN  /\ IsObject(e)
                /\ HasKey(body, "error") =>
                      /\ StringField(e, "error") = JStr(Sprint(body.v["error"]))
                      /\ ValueField(e, "result") = JNull
                      /\ (KeysOf(body) \ {"error"}) \cap KeysOf(e) = {}
                /\ ~HasKey(body, "error") =>
                      /\ ValueField(e, "result") = body
                      /\ ~HasKey(e, "error")

\* C22 witness: a body with a numeric error wrapped into an envelope whose
\* error field is its decimal form.
C22_Witness ==
    \E r \in Reqs :
        /\ Wrapped(r)
        /\ last[r].obj = ErrorCodeBody
        /\ HasKey(WireJSON(r), "error")
        /\ WireJSON(r).v["error"] = JStr("42")

\* The handler of r has just written, with c.Writer.Write or with c.JSON.
JustWrote(r) == last[r].op \in {"Write", "JSON"}

\* C23: the interceptor never loses a response: every Write reaches the
\* underlying writer; a Write whose Content-Type does not contain
\* application/json, whose bytes do not parse as JSON, or whose
\* re-serialisation fails reaches it with the original bytes; and Write returns
\* an error only when the underlying writer returned one.
C23_NeverLosesAResponse ==
    \A r \in Reqs :
        (JustWrote(r) /\ Len(ctx[r].writers) = 1) =>
            /\ ctx[r].nwrites = nops[r]
            /\ ctx[r].werr = ctx[r].writerFails
            /\ (\/ ~ContainsApplicationJSON(RespHeader(ctx[r], "Content-Type"))
                \/ ~Unmarshal(last[r].data).ok
                \/ ctx[r].marshalFails) => ctx[r].out = last[r].data

\* C23 witness: text written under a JSON Content-Type as the first write of a
\* request that has a logger, on a healthy connection: the bytes arrive as
\* written and Write returns no error.
C23_Witness ==
    \E r \in Reqs :
        /\ last[r].op = "Write"
        /\ Len(ctx[r].writers) = 1
        /\ ctx[r].keys[REQUEST_LOGGER].kind = "logger"
        /\ ContainsApplicationJSON(last[r].contentType)
        /\ last[r].data = TextBytes
        /\ ~WrittenFlag(last[r].before)
        /\ ctx[r].out = TextBytes
        /\ ~ctx[r].writerFails /\ ~ctx[r].werr

\* The logger a render call is documented to query.
DocumentedLogger(r) == IF last[r].logger # NoLogger THEN last[r].logger ELSE GlobalLogger

\* The three warnings getApiResponse writes under "000".
LogWarnings(cid) ==
    [failed |-> "WRN|error retrieving logs memory writer unavailable",
     none |-> "WRN|No logs found for this request (memory logging may not be properly configured) CorrelationID:" \o cid,
     noID |-> "WRN|No correlation ID found - memory logging unavailable"]

\* C24: the log map of every envelope built by RenderService has at least one
\* entry: the memory logs retrieved for the correlation ID when there are any,
\* otherwise a single "000" warning (retrieval failed, or no logs were found);
\* a failing retrieval never keeps the response from being written with the
\* requested status; the logger queried is the one given with WithLogger, or
\* the global arbor logger when none was given.
C24_LogNeverEmpty ==
    \A r \in Reqs :
        last[r].op = "Render" =>
            LET e == WireJSON(r)
                cid == GetCorrelationID(last[r].before)
                outcome == last[r].env.logs
            IN  /\ ctx[r].committed /\ ctx[r].nwrites = 1
                /\ ctx[r].status = last[r].code
                /\ HasKey(e, "log") /\ IsObject(e.v["log"])
                /\ DOMAIN e.v["log"].v # {}
                /\ TrimSpace(cid) # "" =>
                      e.v["log"] =
                         StringMapJSON(
                            CASE outcome = "entries" -> RetrievedLogs(DocumentedLogger(r))
                              [] outcome = "error" -> "000" :> LogWarnings(cid).failed
                              [] OTHER -> "000" :> LogWarnings(cid).none)
                /\ TrimSpace(cid) = "" => DOMAIN e.v["log"].v = {"000"}

\* C24 witness: a 400 rendered without WithLogger while the global logger's
\* retrieval fails, for a request whose ID came with the header.
C24_Witness ==
    \E r \in Reqs :
        /\ last[r].op = "Render"
        /\ last[r].logger = NoLogger
        /\ last[r].env.logs = "error"
        /\ last[r].code = 400
        /\ ctx[r].status = 400
        /\ GetCorrelationID(last[r].before) = "hdr-id"
        /\ HasKey(WireJSON(r), "log")

\* The request reached its handler with no correlation ID: none in the context
\* and none in the X-Correlation-ID or correlationid request headers.
NoCorrelationID(c) ==
    /\ GetString(c, CORRELATION_ID_KEY) = ""
    /\ GetHeader(c, "X-Correlation-ID") = ""
    /\ GetHeader(c, CORRELATION_ID_KEY) = ""

\* C25: when a request reaches RenderService with no correlation ID, the logger
\* is not queried and the envelope's log map is exactly
\* {"000": "WRN|No correlation ID found - memory logging unavailable"}.
C25_NoIDNoLogQuery ==
    \A r \in Reqs :
        (last[r].op = "Render" /\ NoCorrelationID(last[r].before)) =>
            /\ HasKey(WireJSON(r), "log")
            /\ WireJSON(r).v["log"] = StringMapJSON("000" :> LogWarnings("").noID)

\* What the code does: GetCorrelationID answers "unknown" for such a request,
\* which is not blank, so the logger is queried with "unknown" and the log map
\* is what that query gives: its entries, the retrieval-error warning or the
\* no-logs warning naming CorrelationID:unknown.  The no-correlation-ID warning
\* is written for a blank ID stored in the context only.
C25_NoIDQueriesUnknown ==
    \A r \in Reqs :
        last[r].op = "Render" =>
            LET log == WireJSON(r).v["log"]
                outcome == last[r].env.logs
            IN  /\ NoCorrelationID(last[r].before) =>
                      /\ WireJSON(r).v["correlationid"] = JStr(Unknown)
                      /\ log = StringMapJSON(
                            CASE outcome = "entries" -> RetrievedLogs(DocumentedLogger(r))
                              [] outcome = "error" -> "000" :> LogWarnings(Unknown).failed
                              [] OTHER -> "000" :> LogWarnings(Unknown).none)
                /\ log = StringMapJSON("000" :> LogWarnings("").noID)
                      <=> GetString(last[r].before, CORRELATION_ID_KEY) = " "

\* C25 witness: a request without any correlation ID rendered while the logger
\* holds entries.
C25_Witness ==
    \E r \in Reqs :
        /\ last[r].op = "Render"
        /\ NoCorrelationID(last[r].before)
        /\ router = <<>>
        /\ last[r].env.logs = "entries"
        /\ ctx[r].committed

\* The request r has a request logger, stored under REQUEST_LOGGER.
HasRequestLogger(r) == ctx[r].keys[REQUEST_LOGGER].kind = "logger"

\* C26: with no middleware config at all (JSONMiddlewareWithConfig(nil)) the
\* interceptor defaults to development mode, so a body it rewrites for a
\* request that has a request logger is written pretty-printed.
C26_NilConfigPrettyPrints ==
    \A r \in Reqs :
        (Rewrote(r) /\ InstalledConfig(r).nil /\ HasRequestLogger(r)) =>
            /\ IsDevelopmentMode(InstalledConfig(r))
            /\ ctx[r].out.style = "indent2"

\* What the code does: isDevelopmentMode answers true for a nil config, but both
\* marshal sites ask w.config != nil first, so the body is written by
\* json.Marshal, compact, whether it was wrapped or only re-serialised.
C26_NilConfigWritesCompact ==
    \A r \in Reqs :
        (Rewrote(r) /\ InstalledConfig(r).nil /\ HasRequestLogger(r)) =>
            /\ IsDevelopmentMode(InstalledConfig(r))
            /\ ctx[r].out.style = "compact"

\* C26 witness: JSONMiddlewareWithConfig(nil), a request logger, and a body that
\* is an envelope already, re-serialised by the interceptor.
C26_Witness ==
    \E r \in Reqs :
        /\ Rewrote(r)
        /\ InstalledConfig(r) = NilRendererConfig
        /\ HasRequestLogger(r)
        /\ last[r].obj = EnvelopeLikeBody
        /\ WireJSON(r) = EnvelopeLikeBody.val

====
